------------------------------- MODULE Assistant -------------------------------
(***************************************************************************)
(* One conversation turn of the assistant: the tool loop                   *)
(* (internal/service/assistant.go), the tools (assistant_tools.go) and the *)
(* batch operations they call (procurement_service.go, sales_service.go,   *)
(* base_data_service.go, rnd_service.go, logistics_service.go).            *)
(*                                                                         *)
(* The language model and the carrier are the environment: they answer     *)
(* with anything, or with an error.  A row is its code in its table and    *)
(* the partner it names; the unique indexes are per tenant and take the    *)
(* blank code for a code.  Row fields other than these, prompts and        *)
(* wording are left out.                                                   *)
(***************************************************************************)
EXTENDS Integers, Sequences, FiniteSetsExt

CONSTANTS
  Calls,           \* calls the language model makes: [tool, rows, page]
  Partners,        \* suppliers and customers
  Roles,           \* roles of users, each with its agent
  PerResponse,     \* bounds: calls in each answer of the language model
  MaxIters,        \* assistantMaxIters
  MaxRepeatExact,  \* maxRepeatExact
  MaxRepeatPage,   \* maxRepeatPage
  ChunkSize,       \* sfBatchSize
  MaxOthers        \* bound: steps of other users

Blank == ""   \* the code of a row that was given none

VARIABLES
  table,    \* committed rows: <<table, code>>
  approved, \* partners whose audit_status is APPROVED
  revoked,  \* permissions the user does not hold (any more)
  chat,     \* the turn being answered
  others    \* steps of other users so far

turnVars == <<table, approved, revoked, chat, others>>

-----------------------------------------------------------------------------
(* The tools.  "none": writes nothing; "one": one row; "reread": one row, which it    *)
(* reads back; "all": its rows in one statement; "each": its rows one transaction     *)
(* after the other, each read back; "save": overwrites the row it read; "cache":      *)
(* appends what the carrier answered, chunk by chunk.                                 *)
Tool(perm, writes, into) ==
  [perm |-> perm, writes |-> writes, into |-> into, named |-> FALSE, partner |-> FALSE]
ListTool(perm) == Tool(perm, "none", "")
MasterTool(perm, writes, into) == [Tool(perm, writes, into) EXCEPT !.named = TRUE]
OrderTool(perm, writes, into) == [Tool(perm, writes, into) EXCEPT !.partner = TRUE]

CustomerGet == ListTool("customer:view")
LogisticsQuery == Tool("logistics:view", "cache", "logistics_query")
LogisticsHistory == ListTool("logistics:view")
DocumentTool == ListTool("")
BomList == ListTool("bom:view")
MaterialCreate == MasterTool("material:manage", "one", "sys_material")
MaterialBatchCreate == MasterTool("material:manage", "all", "sys_material")
SupplierCreate == MasterTool("supplier:manage", "one", "sys_supplier")
SupplierBatchCreate == MasterTool("supplier:manage", "all", "sys_supplier")
MaterialUpdate == MasterTool("material:manage", "save", "sys_material")
ProductCreate == MasterTool("bom:edit", "one", "base_product")
ProductBatchCreate == MasterTool("bom:edit", "all", "base_product")
BomCreate == Tool("bom:edit", "reread", "base_bom")
PoCreate == OrderTool("po:create", "reread", "pur_order")
PoBatchCreate == OrderTool("po:create", "each", "pur_order")
CustomerCreate == MasterTool("customer:manage", "one", "base_customer")
CustomerBatchCreate == MasterTool("customer:manage", "all", "base_customer")
SoCreate == OrderTool("so:create", "reread", "sale_order")
SoBatchCreate == OrderTool("so:create", "each", "sale_order")

(* findTool: the registered tools by name. *)
Tools == [
  material_list |-> ListTool("material:view"), supplier_list |-> ListTool("supplier:view"),
  product_list |-> ListTool("bom:view"), po_list |-> ListTool("po:view"),
  stock_list |-> ListTool("stock:view"), so_list |-> ListTool("so:view"),
  customer_list |-> ListTool("customer:view"), customer_get |-> CustomerGet,
  logistics_query |-> LogisticsQuery, logistics_batch_query |-> LogisticsQuery,
  logistics_history |-> LogisticsHistory, document_list |-> DocumentTool,
  document_parse |-> DocumentTool, document_summary |-> DocumentTool,
  bom_list |-> BomList, material_create |-> MaterialCreate,
  material_batch_create |-> MaterialBatchCreate, supplier_create |-> SupplierCreate,
  supplier_batch_create |-> SupplierBatchCreate, material_update |-> MaterialUpdate,
  product_create |-> ProductCreate, product_batch_create |-> ProductBatchCreate,
  bom_create |-> BomCreate, po_create |-> PoCreate, po_batch_create |-> PoBatchCreate,
  customer_create |-> CustomerCreate, customer_batch_create |-> CustomerBatchCreate,
  so_create |-> SoCreate, so_batch_create |-> SoBatchCreate]

(* What the JSON schemas of the tools admit: one row, the row read and the row to write,  *)
(* or any number of rows; the window of the trace has room for either rule (3 and 5).     *)
ASSUME AssistantAssumption ==
  /\ Calls \subseteq [tool : STRING, rows : Seq([code : STRING, partner : Partners]), page : Int]
  /\ \A call \in Calls : call.tool \in DOMAIN Tools =>
       /\ Tools[call.tool].writes \in {"one", "reread"} => Len(call.rows) = 1
       /\ Tools[call.tool].writes = "save" => Len(call.rows) = 2
  /\ {MaxIters, MaxOthers} \subseteq Nat
  /\ PerResponse \in [1..MaxIters -> Nat]
  /\ {MaxRepeatExact, MaxRepeatPage, ChunkSize} \subseteq Nat \ {0}
  /\ MaxRepeatExact <= MaxRepeatPage + 4

(* The names the page-flip rule looks at. *)
FlipNames ==
  DOMAIN Tools \ {"bom_list", "bom_create", "logistics_query", "logistics_batch_query",
                  "logistics_history", "document_list", "document_parse", "document_summary"}

NoCall == [tool |-> "", rows |-> <<>>, page |-> 0]

(* What a call came to: the rows it wrote, the ones its tool returns, and whether it is  *)
(* an error.                                                                             *)
Outcome(call, wrote, result, ok) == [call |-> call, wrote |-> wrote, result |-> result, ok |-> ok]

(* executeTool: of an error the model is told the text, and what the tool returned with  *)
(* it is dropped.                                                                        *)
Told(outcome) == IF outcome.ok THEN outcome.result ELSE <<>>

Idle == [phase |-> "idle", files |-> {}, roles |-> {}, iter |-> 0, recent |-> <<>>,
         todo |-> <<>>, invoked |-> <<>>, next |-> 1, wrote |-> <<>>,
         last |-> Outcome(NoCall, <<>>, <<>>, FALSE)]

TurnInit ==
  /\ table = {}
  /\ approved = Partners
  /\ revoked = {}
  /\ chat = Idle
  /\ others = 0

(* The turn ends: answered, or failed with an error. *)
EndsAs(phase) == chat' = [Idle EXCEPT !.phase = phase]

-----------------------------------------------------------------------------
(* A message and its attachments, routing and the prompt. *)

(* classifyAttachments: one attachment that is neither a document nor an image, or is too *)
(* large, rejects the message.                                                            *)
Accepted(files) == files \subseteq {"document", "image"}

(* The first half of ChatWithAttachments. *)
Start(files, roles) ==
  /\ chat.phase = "idle"
  /\ chat' = IF Accepted(files)
             THEN [chat EXCEPT !.phase = "routing", !.files = files, !.roles = roles]
             ELSE [chat EXCEPT !.phase = "failed"]
  /\ UNCHANGED <<table, approved, revoked, others>>

(* route: no role, or no role that has an agent, and there is no reply; one agent needs no *)
(* model call; several are picked from by the model, the first one where it fails; but an  *)
(* answer without choices is indexed all the same, and the recovered panic is an error.   *)
Route ==
  /\ chat.phase = "routing"
  /\ \/ Cardinality(chat.roles) # 1 /\ EndsAs("failed")
     \/ \E role \in chat.roles : chat' = [chat EXCEPT !.phase = "setup", !.roles = {role}]
  /\ UNCHANGED <<table, approved, revoked, others>>

(* The prompt: an image that cannot be read ends the turn, a document that cannot be      *)
(* parsed does not.  From here on the agent's role is in the prompt only: it decides      *)
(* which tools are offered, and executeTool takes any.                                    *)
Setup ==
  /\ chat.phase = "setup"
  /\ \/ chat' = [chat EXCEPT !.phase = "thinking", !.files = {}, !.roles = {}]
     \/ "image" \in chat.files /\ EndsAs("failed")
  /\ UNCHANGED <<table, approved, revoked, others>>

-----------------------------------------------------------------------------
(* The loop rules. *)
LastOf(seq, n) == SubSeq(seq, Len(seq) - n + 1, Len(seq))
Window(seq) == IF Len(seq) > MaxRepeatPage + 4 THEN LastOf(seq, MaxRepeatPage + 4) ELSE seq

(* Rule 1: the same call with the same arguments. *)
Repeats(recent) ==
  /\ Len(recent) >= MaxRepeatExact
  /\ \A n \in 1..MaxRepeatExact : LastOf(recent, MaxRepeatExact)[n] = recent[Len(recent)]

(* Rule 2: the same tool on one page after another. *)
Flips(recent) ==
  /\ Len(recent) >= MaxRepeatPage
  /\ recent[Len(recent)].tool \in FlipNames
  /\ LET flip == LastOf(recent, MaxRepeatPage)
     IN  \A n \in 1..MaxRepeatPage :
           /\ flip[n].tool = flip[1].tool
           /\ flip[n].page > 0
           /\ n > 1 => flip[n].page > flip[n - 1].page

(* The calls of an answer are traced one by one, before any of them is executed. *)
TracedAfresh(recent, calls) == Window(calls)        \* mutant: per answer
Traced(recent, calls) == Window(recent \o calls)
Blocked(recent, calls) ==
  \E n \in 1..Len(calls) :
    LET traced == Traced(recent, SubSeq(calls, 1, n)) IN Repeats(traced) \/ Flips(traced)

(* A call to the language model: it fails, answers in full, or asks for calls. *)
Think ==
  /\ chat.phase = "thinking" /\ chat.iter < MaxIters
  /\ \/ EndsAs("failed")
     \/ EndsAs("replied")
     \/ \E n \in 1..PerResponse[chat.iter + 1] : \E calls \in [1..n -> Calls] :
          IF Blocked(chat.recent, calls) THEN EndsAs("replied")
          ELSE chat' = [chat EXCEPT !.phase = "executing", !.iter = @ + 1, !.todo = calls,
                                    !.recent = Traced(@, calls)]
  /\ UNCHANGED <<table, approved, revoked, others>>

(* The steps are used up: the apology. *)
Exhausted ==
  /\ chat.phase = "thinking" /\ chat.iter = MaxIters
  /\ EndsAs("replied")
  /\ UNCHANGED <<table, approved, revoked, others>>

-----------------------------------------------------------------------------
(* Executing one call. *)
Call == Head(chat.todo)
CallRows == Call.rows
Into == Tools[Call.tool].into
RowOf(row) == <<Into, row.code>>

(* The call is over. *)
Done(wrote, result, ok) ==
  chat' = [chat EXCEPT !.phase = IF Len(chat.todo) = 1 THEN "thinking" ELSE "executing",
                       !.todo = Tail(chat.todo), !.invoked = Append(@, Call), !.next = 1, !.wrote = <<>>,
                       !.last = Outcome(Call, wrote, result, ok)]

(* executeTool: a tool that does not exist, or that the user may not use. *)
Allowed == Call.tool \in DOMAIN Tools /\ Tools[Call.tool].perm \notin revoked

Refuse ==
  /\ chat.phase = "executing" /\ ~Allowed
  /\ Done(<<>>, <<>>, FALSE)
  /\ UNCHANGED <<table, approved, revoked, others>>

Executing(kinds) ==
  chat.phase = "executing" /\ Allowed /\ Tools[Call.tool].writes \in kinds

(* A query; or arguments that do not parse, or the database fails. *)
Query ==
  /\ Executing({"none"})
  /\ \E ok \in BOOLEAN : Done(<<>>, <<>>, ok)
  /\ UNCHANGED <<table, approved, revoked, others>>

(* What the services require of a row, and the unique index. *)
Named(row) == Tools[Call.tool].named => row.code # Blank
PartnerOK(row) == Tools[Call.tool].partner => row.partner \in approved
Free(row) == RowOf(row) \notin table

(* A statement is refused, or the database fails: nothing of it is written. *)
Rejected == Done(<<>>, <<>>, FALSE) /\ UNCHANGED table

(* Create of one row of master data. *)
InsertOne ==
  /\ Executing({"one"})
  /\ LET row == CallRows[1]
     IN  \/ Rejected
         \/ /\ Named(row) /\ Free(row)
            /\ table' = table \cup {RowOf(row)}
            /\ Done(CallRows, CallRows, TRUE)
  /\ UNCHANGED <<approved, revoked, others>>

(* CreateBatch of master data: every row checked, then one statement in one transaction. *)
Distinct(rows) == \A i, j \in 1..Len(rows) : rows[i].code = rows[j].code => i = j
InsertAll ==
  /\ Executing({"all"})
  /\ LET rows == {CallRows[n] : n \in 1..Len(CallRows)}
     IN  \/ Rejected
         \/ /\ CallRows # <<>> /\ Distinct(CallRows) /\ \A row \in rows : Named(row) /\ Free(row)
            /\ table' = table \cup {RowOf(row) : row \in rows}
            /\ Done(CallRows, CallRows, TRUE)
  /\ UNCHANGED <<approved, revoked, others>>

(* material_update: reads the row, overwrites it; nothing checks the new code but the index. *)
Save ==
  /\ Executing({"save"})
  /\ LET old == CallRows[1] new == CallRows[2]
     IN  \/ Rejected
         \/ /\ RowOf(old) \in table /\ (new.code = old.code \/ Free(new))
            /\ table' = (table \ {RowOf(old)}) \cup {RowOf(new)}
            /\ Done(<<new>>, <<new>>, TRUE)
  /\ UNCHANGED <<approved, revoked, others>>

(* CreateBatch of purchase or sales orders, pass 1: every partner is approved, or nothing *)
(* is written.                                                                           *)
BeginBatch ==
  /\ Executing({"each"})
  /\ \/ Done(<<>>, <<>>, FALSE)
     \/ /\ CallRows # <<>> /\ \A n \in 1..Len(CallRows) : PartnerOK(CallRows[n])
        /\ chat' = [chat EXCEPT !.phase = "writing"]
  /\ UNCHANGED <<table, approved, revoked, others>>

(* The rows before `next` are confirmed: what the tool returns if the call ends here. *)
Confirmed == IF Tools[Call.tool].writes = "cache" THEN chat.wrote ELSE SubSeq(CallRows, 1, chat.next - 1)

(* The row or chunk after the ones before `next` is done; the last one ends the call. *)
Advance(count, wrote) ==
  IF chat.next + count > Len(CallRows) THEN Done(wrote, wrote, TRUE)
  ELSE chat' = [chat EXCEPT !.phase = "writing", !.next = @ + count, !.wrote = wrote]

(* A row or a chunk failed: the call ends there, and what is written stays. *)
AfterFailureNext == Advance(1, chat.wrote)          \* mutant: goes on with the next row
AfterFailureAgain == UNCHANGED chat                 \* mutant: tries it again
AfterFailure == Done(chat.wrote, Confirmed, FALSE)

(* Create of an order or of a bill of materials, in a batch or alone: the partner is read  *)
(* (again), and the row is written in a transaction of its own.                            *)
InsertNext ==
  /\ Executing({"reread"}) \/ (chat.phase = "writing" /\ Tools[Call.tool].writes = "each")
  /\ LET row == CallRows[chat.next]
     IN  \/ AfterFailure /\ UNCHANGED table
         \/ /\ PartnerOK(row) /\ Free(row)
            /\ table' = table \cup {RowOf(row)}
            /\ chat' = [chat EXCEPT !.phase = "reading", !.wrote = Append(@, row)]
  /\ UNCHANGED <<approved, revoked, others>>

(* Create reads it back: an error is one of Create, though the row is written.  A row that *)
(* somebody deleted in between is nil: null to a single tool, and a panic to a batch, which *)
(* the HTTP server recovers.  (One written again under its code by others counts as found.) *)
Reread ==
  /\ chat.phase = "reading"
  /\ \/ AfterFailure
     \/ RowOf(CallRows[chat.next]) \in table /\ Advance(1, chat.wrote)
     \/ /\ RowOf(CallRows[chat.next]) \notin table
        /\ IF Tools[Call.tool].writes = "each" THEN EndsAs("failed") ELSE Done(chat.wrote, <<>>, TRUE)
  /\ UNCHANGED <<table, approved, revoked, others>>

(* QueryBatch: the carrier answers a chunk with some of its routes, which are kept, or fails. *)
QueryChunk ==
  /\ Executing({"cache"}) \/ (chat.phase = "writing" /\ Tools[Call.tool].writes = "cache")
  /\ LET chunk == SubSeq(CallRows, chat.next, Min({Len(CallRows), chat.next + ChunkSize - 1}))
     IN  \/ AfterFailure /\ UNCHANGED table
         \/ \E kept \in SUBSET {chunk[n] : n \in 1..Len(chunk)} :
              /\ table' = table \cup {RowOf(row) : row \in kept}
              /\ Advance(ChunkSize, chat.wrote \o SelectSeq(chunk, LAMBDA row : row \in kept))
  /\ UNCHANGED <<approved, revoked, others>>

(* The handler: the turn goes to the memory, or does not, and the reply to the user. *)
Answer ==
  /\ chat.phase = "replied"
  /\ EndsAs("answered")
  /\ UNCHANGED <<table, approved, revoked, others>>

-----------------------------------------------------------------------------
(* Everybody else, and the process. *)

(* Other users write and delete rows, approve partners or take approvals back, and take *)
(* permissions from the user.                                                           *)
Others ==
  /\ others < MaxOthers
  /\ others' = others + 1
  /\ \/ \E call \in Calls : \E n \in 1..Len(call.rows) :
           /\ call.tool \in DOMAIN Tools
           /\ LET row == <<Tools[call.tool].into, call.rows[n].code>>
              IN  table' = IF row \in table THEN table \ {row} ELSE table \cup {row}
           /\ UNCHANGED <<approved, revoked>>
     \/ \E p \in Partners :
           /\ approved' = IF p \in approved THEN approved \ {p} ELSE approved \cup {p}
           /\ UNCHANGED <<table, revoked>>
     \/ \E call \in Calls :
           /\ call.tool \in DOMAIN Tools /\ Tools[call.tool].perm # ""
           /\ revoked' = revoked \cup {Tools[call.tool].perm}
           /\ UNCHANGED <<table, approved>>
  /\ UNCHANGED chat

(* The process dies with the turn in it: nothing of the turn is kept but what was written. *)
Dies ==
  /\ chat.phase \notin {"idle", "answered", "failed", "lost"}
  /\ EndsAs("lost")
  /\ UNCHANGED <<table, approved, revoked, others>>

TurnStep ==
  \/ Route \/ Setup \/ Think \/ Exhausted \/ Refuse \/ Query \/ InsertOne \/ InsertAll
  \/ Save \/ BeginBatch \/ InsertNext \/ Reread \/ QueryChunk \/ Answer

TurnNext ==
  \/ \E files \in SUBSET {"document", "image", "other"}, roles \in SUBSET Roles : Start(files, roles)
  \/ TurnStep
  \/ Others
  \/ Dies

(* The request runs on its goroutine, and the client of the language model and the one of  *)
(* the carrier time out (300 s, 30 s).                                                     *)
TurnSpec == TurnInit /\ [][TurnNext]_turnVars /\ WF_turnVars(TurnStep)

-----------------------------------------------------------------------------
(* Properties. *)

TurnTypeOK ==
  /\ approved \in SUBSET Partners
  /\ others \in 0..MaxOthers
  /\ chat.phase \in {"idle", "routing", "setup", "thinking", "executing", "writing",
                      "reading", "replied", "answered", "failed", "lost"}
  /\ chat.iter \in 0..MaxIters
  /\ chat.next = 1 \/ chat.next \in 1..Len(CallRows)

Prefix(short, long) == Len(short) <= Len(long) /\ short = SubSeq(long, 1, Len(short))

(* What a call came to, and what executeTool makes of it for the model.  Rows the model is *)
(* told of are the ones written; after an error it is told of none, so that the tail of a  *)
(* batch that failed is not known to it.  A creating tool without an error has written all *)
(* of its rows.  An error of master data has written none; one of orders or of a bill of   *)
(* materials the first rows, and at most one more than the tool returned to executeTool:   *)
(* the row whose reading back failed.  (Create and CreateBatch of the services.)           *)
ToldWhatWasWritten ==
  LET call == chat.last.call
      kind == Tools[call.tool].writes
      wrote == chat.last.wrote
  IN  call # NoCall /\ call.tool \in DOMAIN Tools =>
        /\ Told(chat.last) \in {<<>>, wrote}
        /\ chat.last.ok /\ kind \in {"one", "reread", "all", "each"} => wrote = call.rows
        /\ ~chat.last.ok /\ kind \in {"none", "one", "all", "save"} => wrote = <<>>
        /\ kind \in {"reread", "each"} =>
             /\ Prefix(wrote, call.rows) /\ Prefix(chat.last.result, wrote)
             /\ Len(wrote) <= Len(chat.last.result) + 1

(* The rules of the loop hold over answers, not within one only: among the calls executed  *)
(* in a turn there are never maxRepeatExact identical ones in a row, nor maxRepeatPage of  *)
(* one tool with pages that grow, where the tool is one whose name the code looks at; of   *)
(* the tools that take a page, bom_list and logistics_history are not (the check before    *)
(* executing in runMultimodal).                                                            *)
NoRunaway ==
  \A n \in 1..Len(chat.invoked) :
    LET executed == SubSeq(chat.invoked, 1, n) IN ~Repeats(executed) /\ ~Flips(executed)

(* Whatever the model answers and the others do, a message is answered or fails, or the   *)
(* process dies (the bounded loop of runMultimodal).                                      *)
AlwaysAnswers ==
  chat.phase = "routing" ~> chat.phase \in {"answered", "failed", "lost"}
=============================================================================

------------------------------ MODULE WorkQueue ------------------------------
(***************************************************************************)
(* Claims on a work queue (delegates/work_queue_client.py).  The server    *)
(* lets one card per queue hold a reference and answers 409 to the others: *)
(* with the owner's card, as CONFLICT_RETRY, or in a shape that the client *)
(* does not know.  POST and DELETE are sent once (base_client.py): when    *)
(* the connection breaks the call raises, and its request is served later, *)
(* or never.                                                               *)
(*                                                                         *)
(* The callers use the delegate freely, or one of them runs the example    *)
(* script (examples/quick_work_queue.py): a table of calls, the outcomes   *)
(* that it asserts, and its clean-up.                                      *)
(***************************************************************************)
EXTENDS Naturals, Sequences

CONSTANTS
  QueueCaller,   \* callers that use the delegate freely
  ScriptCaller,  \* the process of the example
  ClaimRef,      \* references that the free callers claim
  MaxQueueCalls, \* calls of each free caller, at most
  MaxQueueFails  \* calls that raise, at most

VARIABLES
  cards,     \* the server's cards: which call made them, queue and refs
  requests,  \* requests on their way
  waits,     \* the request that each caller waits for
  calls,     \* calls made by each caller
  outcome,   \* what each caller's last call returned
  wqFails,   \* calls that have raised
  wqStep,    \* the example's next step, 0 when the callers are free
  wqOk,      \* ok, raised, or asserted: how the example is doing
  slots      \* the cards that the example remembers, by name

wqVars == <<cards, requests, waits, calls, outcome, wqFails, wqStep, wqOk,
            slots>>
example == <<wqStep, wqOk, slots>>

AnyCaller == QueueCaller \cup {ScriptCaller}
NoRequest == [op |-> "none"]
Slot == {"A", "B", "C", "D", "rival"}

\* One line of the example: the call, and what it asserts of the outcome, a
\* count as the cards that are counted.  Two claims are made twice: through
\* the delegate, and as a raw request whose 409 is looked at.
Do(op, queue, slot, refs, is, names) ==
  [op |-> op, queue |-> queue, slot |-> slot, refs |-> refs, is |-> is,
   names |-> names]
ClaimSteps ==
  << Do("create", 1, "A", {"file_a", "hash_a"}, "won", {"A"}),
     Do("create", 1, "none", {"file_a"}, "lost", {"A"}),
     Do("create", 1, "none", {"file_a"}, "lost", {"A"}),
     Do("get", 1, "A", {}, "found", {"A"}),
     Do("lookup", 0, "none", {"file_a"}, "found", {"A"}),
     Do("create", 2, "B", {"file_b"}, "won", {"B"}),
     Do("lookup", 2, "none", {"file_b"}, "found", {"B"}),
     Do("lookup", 1, "none", {"file_b"}, "found", {}),
     Do("create", 1, "C", {"shared"}, "won", {"C"}),
     Do("create", 2, "D", {"shared"}, "won", {"D"}),
     Do("lookup", 0, "none", {"shared"}, "found", {"C", "D"}),
     Do("lookup", 1, "none", {"shared"}, "found", {"C"}),
     Do("lookup", 2, "none", {"shared"}, "found", {"D"}),
     Do("delete", 1, "C", {}, "done", {}),
     Do("delete", 2, "D", {}, "done", {}),
     Do("lookup", 0, "none", {"missing"}, "found", {}) >>
ForgetSteps ==
  << Do("add_ref", 1, "A", {"hash_new"}, "won", {"A"}),
     Do("create", 1, "rival", {}, "won", {"rival"}),
     Do("add_ref", 1, "rival", {"file_a"}, "lost", {"A"}),
     Do("add_ref", 1, "rival", {"file_a"}, "lost", {"A"}),
     Do("delete", 1, "rival", {}, "done", {}),
     Do("publish", 1, "A", {}, "done", {}),
     Do("delete", 1, "A", {}, "done", {}),
     Do("lookup", 0, "none", {"file_a"}, "found", {}) >>
CleanUpOfA == << Do("delete", 1, "A", {}, "done", {}) >>
CleanUp == << Do("delete", 1, "A", {}, "done", {}),
              Do("delete", 2, "B", {}, "done", {}) >>
WqScript == ClaimSteps \o ForgetSteps \o CleanUp
FirstCleanUp == Len(ClaimSteps \o ForgetSteps) + 1
Line == WqScript[wqStep]

WqInit ==
  /\ cards = {} /\ requests = {}
  /\ waits = [c \in AnyCaller |-> NoRequest]
  /\ calls = [c \in AnyCaller |-> 0]
  /\ outcome = [c \in AnyCaller |-> [is |-> "none", cards |-> {}]]
  /\ wqFails = 0
  /\ wqStep \in {0, 1} /\ wqOk = "ok"
  /\ slots = [s \in Slot |-> {}]

----------------------------------------------------------------------------
\* _make_request: one request, on behalf of the caller's next call.
Send(c, op, queue, card, refs) ==
  LET r == [call |-> <<c, calls[c] + 1>>, op |-> op, queue |-> queue,
            card |-> card, refs |-> refs]
  IN  /\ waits[c] = NoRequest
      /\ waits' = [waits EXCEPT ![c] = r]
      /\ requests' = requests \cup {r}
      /\ calls' = [calls EXCEPT ![c] = @ + 1]
      /\ outcome' = [outcome EXCEPT ![c] = [is |-> "none", cards |-> {}]]
      /\ UNCHANGED <<cards, wqFails, example>>

FreeCall(c) ==
  /\ wqStep = 0 /\ calls[c] < MaxQueueCalls
  /\ \/ \E refs \in SUBSET ClaimRef : Send(c, "create", 1, {}, refs)
     \/ \E k \in cards, ref \in ClaimRef :
          \/ Send(c, "add_ref", 1, {k.made}, {ref})
          \/ Send(c, "delete", 1, {k.made}, {})

\* What the server makes of the 409 envelope; the client raises on a shape
\* that is neither (_parse_conflict), and never invents an owner.
ParseConflict(envelope, owner) ==
  CASE envelope = "owner" -> [is |-> "lost", cards |-> {owner.made}]
    [] envelope = "retry" -> [is |-> "contended", cards |-> {}]
    [] OTHER              -> [is |-> "error", cards |-> {}]

\* The answer reaches the caller if it still waits for this request.
Answer(r, o) ==
  LET c == r.call[1]
  IN  IF waits[c] = r
      THEN /\ waits' = [waits EXCEPT ![c] = NoRequest]
           /\ outcome' = [outcome EXCEPT ![c] = o]
      ELSE UNCHANGED <<waits, outcome>>

Owners(r) == {k \in cards : k.queue = r.queue /\ k.refs \cap r.refs # {}
                              /\ k.made \notin r.card}
Conflict(r) ==
  /\ UNCHANGED cards
  /\ \E k \in Owners(r), envelope \in {"owner", "retry", "other"} :
       /\ wqStep # 0 => envelope = "owner"
       /\ Answer(r, ParseConflict(envelope, k))

CreateItem(r) ==
  LET k == [made |-> r.call, queue |-> r.queue, refs |-> r.refs]
  IN  /\ r.op = "create"
      /\ IF Owners(r) # {} THEN Conflict(r)
         ELSE /\ cards' = cards \cup {k}
              /\ Answer(r, [is |-> "won", cards |-> {k.made}])

\* The other calls name a card; 404 when it is gone.
NotFound(r) ==
  /\ r.op \in {"get", "add_ref", "publish", "delete"}
  /\ \A k \in cards : k.made \notin r.card
  /\ UNCHANGED cards /\ Answer(r, [is |-> "error", cards |-> {}])

AddRef(r) ==
  /\ r.op = "add_ref"
  /\ \E k \in cards :
       /\ k.made \in r.card
       /\ IF Owners(r) # {} THEN Conflict(r)
          ELSE /\ cards' = (cards \ {k}) \cup
                             {[k EXCEPT !.refs = @ \cup r.refs]}
               /\ Answer(r, [is |-> "won", cards |-> {k.made}])

\* publish_item; its dispatch may fail, which the example tolerates.
ItemCommand(r) ==
  /\ r.op = "publish"
  /\ \E k \in cards : k.made \in r.card
  /\ UNCHANGED cards
  /\ \E is \in {"done", "error"} : Answer(r, [is |-> is, cards |-> {}])

\* delete_item: the references go with the card.
DeleteItem(r) ==
  /\ r.op = "delete"
  /\ \E k \in cards : /\ k.made \in r.card
                      /\ cards' = cards \ {k}
                      /\ Answer(r, [is |-> "done", cards |-> {}])

GetItem(r) ==
  /\ r.op = "get"
  /\ UNCHANGED cards
  /\ \E k \in cards : /\ k.made \in r.card
                      /\ Answer(r, [is |-> "found", cards |-> {k.made}])

\* get_items_by_ref: the owners, in one queue or (0) in all of them.
GetItemsByRef(r) ==
  /\ r.op = "lookup"
  /\ UNCHANGED cards
  /\ Answer(r, [is |-> "found",
                cards |-> {k.made : k \in {k \in cards :
                  /\ r.queue \in {0, k.queue}
                  /\ r.refs \subseteq k.refs}}])

Serve(r) ==
  /\ requests' = requests \ {r}
  /\ \/ CreateItem(r) \/ AddRef(r) \/ ItemCommand(r) \/ DeleteItem(r)
     \/ GetItem(r) \/ GetItemsByRef(r) \/ NotFound(r)
  /\ UNCHANGED <<calls, wqFails, example>>

\* A timeout, or a connection that broke before or after the effect; mutant:
\* the request is sent again.
CallFailsResent(c) ==
  LET r == waits[c]
      second == [call |-> r.call, op |-> r.op, queue |-> r.queue,
                 card |-> r.card, refs |-> r.refs, resent |-> TRUE]
  IN  /\ waits[c] # NoRequest /\ wqFails < MaxQueueFails
      /\ wqFails' = wqFails + 1
      /\ waits' = [waits EXCEPT ![c] = second]
      /\ requests' = requests \cup {second}
      /\ UNCHANGED <<cards, outcome, calls, example>>
CallFails(c) ==
  /\ waits[c] # NoRequest /\ wqFails < MaxQueueFails
  /\ wqFails' = wqFails + 1
  /\ waits' = [waits EXCEPT ![c] = NoRequest]
  /\ outcome' = [outcome EXCEPT ![c] = [is |-> "error", cards |-> {}]]
  /\ UNCHANGED <<cards, requests, calls, example>>

----------------------------------------------------------------------------
\* The next line of the example.
ScriptCalls ==
  LET card == IF Line.slot \in Slot /\ Line.op # "create"
              THEN slots[Line.slot] ELSE {}
  IN  /\ wqStep \in 1 .. Len(WqScript)
      /\ outcome[ScriptCaller].is = "none"
      /\ wqStep >= FirstCleanUp => card # {}
      /\ Send(ScriptCaller, Line.op, Line.queue, card, Line.refs)

\* The outcome is asserted; a call that raises, or an assertion that fails,
\* ends in the clean-up, and a clean-up that raises ends there.
ScriptChecks ==
  LET o     == outcome[ScriptCaller]
      noted == IF Line.op = "create" /\ Line.slot \in Slot /\ o.is = "won"
               THEN [slots EXCEPT ![Line.slot] = o.cards] ELSE slots
      holds == /\ o.is = Line.is
               /\ o.cards = UNION {noted[s] : s \in Line.names}
  IN  /\ wqStep \in 1 .. Len(WqScript)
      /\ o.is # "none"
      /\ outcome' = [outcome EXCEPT ![ScriptCaller].is = "none"]
      /\ slots' = IF wqStep = FirstCleanUp - 1 /\ holds
                  THEN [noted EXCEPT !["A"] = {}] ELSE noted
      /\ IF holds \/ Line.op = "publish"
         THEN wqStep' = wqStep + 1 /\ UNCHANGED wqOk
         ELSE /\ wqOk' = IF o.is = "error" THEN "raised" ELSE "asserted"
              /\ wqStep' = IF wqStep < FirstCleanUp THEN FirstCleanUp
                           ELSE Len(WqScript) + 1
      /\ UNCHANGED <<cards, requests, waits, calls, wqFails>>

\* The clean-up skips a card that the example does not remember.
ScriptSkips ==
  /\ wqStep \in FirstCleanUp .. Len(WqScript)
  /\ slots[Line.slot] = {}
  /\ wqStep' = wqStep + 1
  /\ UNCHANGED <<cards, requests, waits, calls, outcome, wqFails, wqOk, slots>>

WqNext ==
  \/ \E c \in QueueCaller : FreeCall(c)
  \/ \E r \in requests : Serve(r)
  \/ \E c \in AnyCaller : CallFails(c)
  \/ ScriptCalls \/ ScriptChecks \/ ScriptSkips

WqSpec == WqInit /\ [][WqNext]_wqVars

----------------------------------------------------------------------------
\* A call that reports its claim lost, or contended, has left no card behind:
\* what it lost to is never the effect of its own request.
NoCardBehindALoss ==
  \A c \in AnyCaller : outcome[c].is \in {"lost", "contended"} =>
    \A k \in cards : k.made # <<c, calls[c]>>

\* The example's assertions hold unless a call raises, and when it reports
\* that all steps passed it has left no card behind.
ExampleLeavesNothing ==
  /\ wqOk # "asserted"
  /\ wqStep = Len(WqScript) + 1 /\ wqOk = "ok" => cards = {}
==============================================================================

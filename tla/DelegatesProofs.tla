-------------------------- MODULE DelegatesProofs ---------------------------
(***************************************************************************)
(* The delegates: work-queue claims, annotation batches and dataset        *)
(* pushes.  Each part stands on its own.                                   *)
(***************************************************************************)
EXTENDS WorkQueue, Annotations, DatasetPush, TLAPS

-----------------------------------------------------------------------------
(***************************************************************************)
(* Work-queue claims, for any callers, references and calls.  A request is *)
(* served once, so a call that was answered has nothing on its way, and a  *)
(* claim that was answered as lost made no card.                           *)
(***************************************************************************)

CallId == AnyCaller \X Nat
Outcome ==
  [is: {"none", "won", "lost", "contended", "found", "done", "error"},
   cards: SUBSET CallId]
LastCall(c) == <<c, calls[c]>>

WqType ==
  /\ calls \in [AnyCaller -> Nat]
  /\ waits \in [AnyCaller -> requests \cup {NoRequest}]
  /\ outcome \in [AnyCaller -> Outcome]
  /\ \A r \in requests : r.call \in CallId /\ r # NoRequest
  /\ \A k \in cards : k.made \in CallId

\* One request per call, and only of calls that were made.
OneRequestPerCall ==
  /\ \A r \in requests : r.call[2] <= calls[r.call[1]]
  /\ \A r, q \in requests : r.call = q.call => r = q

\* The request that made a card has been served.
CardsAreServed ==
  \A k \in cards : /\ k.made[2] <= calls[k.made[1]]
                   /\ \A r \in requests : r.call # k.made

\* A caller waits for its last call, and has no outcome yet.
WaitsForItsLast ==
  \A c \in AnyCaller : waits[c] # NoRequest =>
    waits[c].call = LastCall(c) /\ outcome[c].is = "none"

LossIsFinal ==
  \A c \in AnyCaller : outcome[c].is \in {"lost", "contended"} =>
    /\ \A r \in requests : r.call # LastCall(c)
    /\ \A k \in cards : k.made # LastCall(c)

WqInv == WqType /\ OneRequestPerCall /\ CardsAreServed /\ WaitsForItsLast
           /\ LossIsFinal

LEMMA WqInitInv == WqInit => WqInv
<1> SUFFICES ASSUME WqInit PROVE WqInv
  OBVIOUS
<1>1. WqType
  BY DEF WqInit, WqType, Outcome
<1> QED
  BY <1>1 DEF WqInit, WqInv, OneRequestPerCall, CardsAreServed,
     WaitsForItsLast, LossIsFinal

LEMMA SendKeeps ==
  ASSUME WqInv, NEW c \in AnyCaller, NEW o, NEW queue, NEW card, NEW refs,
         Send(c, o, queue, card, refs)
  PROVE  WqInv'
<1> DEFINE r == [call |-> <<c, calls[c] + 1>>, op |-> o, queue |-> queue,
                 card |-> card, refs |-> refs]
<1>1. /\ waits[c] = NoRequest
      /\ waits' = [waits EXCEPT ![c] = r]
      /\ requests' = requests \cup {r}
      /\ calls' = [calls EXCEPT ![c] = @ + 1]
      /\ outcome' = [outcome EXCEPT ![c] = [is |-> "none", cards |-> {}]]
      /\ UNCHANGED cards
  BY DEF Send
<1>2. r.call = <<c, calls[c] + 1>> /\ calls[c] \in Nat /\ r.call \in CallId
  BY DEF WqInv, WqType, CallId
<1>10. r # NoRequest
  <2>1. "call" \in DOMAIN r /\ "call" \notin DOMAIN NoRequest
    BY DEF NoRequest
  <2> HIDE DEF r
  <2> QED BY <2>1
<1> HIDE DEF r
<1>3. /\ calls'[c] = calls[c] + 1
      /\ \A d \in AnyCaller : d # c => calls'[d] = calls[d]
      /\ \A d \in AnyCaller : calls[d] \in Nat /\ calls[d] <= calls'[d]
  BY <1>1 DEF WqInv, WqType
<1>4. WqType'
  <2>1. [is |-> "none", cards |-> {}] \in Outcome
    BY DEF Outcome
  <2>2. waits' \in [AnyCaller -> requests' \cup {NoRequest}]
    BY <1>1 DEF WqInv, WqType
  <2> QED BY <1>1, <1>2, <1>3, <1>10, <2>1, <2>2 DEF WqInv, WqType
<1>5. ASSUME NEW m \in CallId, m[2] <= calls[m[1]]
      PROVE  m # r.call /\ m[2] <= calls'[m[1]]
  BY <1>2, <1>3, <1>5 DEF CallId
<1>6. OneRequestPerCall'
  <2>1. \A q \in requests : q.call # r.call /\ q.call[2] <= calls'[q.call[1]]
    BY <1>5 DEF WqInv, WqType, OneRequestPerCall
  <2>2. r.call[2] <= calls'[r.call[1]]
    BY <1>2, <1>3
  <2> QED BY <1>1, <2>1, <2>2 DEF WqInv, OneRequestPerCall
<1>7. CardsAreServed'
  <2>1. \A k \in cards : k.made # r.call /\ k.made[2] <= calls'[k.made[1]]
    BY <1>5 DEF WqInv, WqType, CardsAreServed
  <2> QED BY <1>1, <2>1 DEF WqInv, CardsAreServed
<1>8. WaitsForItsLast'
  BY <1>1, <1>2, <1>3 DEF WqInv, WqType, WaitsForItsLast, LastCall
<1>9. LossIsFinal'
  <2> SUFFICES ASSUME NEW d \in AnyCaller,
                      outcome'[d].is \in {"lost", "contended"}
               PROVE  /\ \A q \in requests' : q.call # LastCall(d)'
                      /\ \A k \in cards' : k.made # LastCall(d)'
    BY DEF LossIsFinal
  <2>1. d # c /\ outcome'[d] = outcome[d]
    BY <1>1 DEF WqInv, WqType
  <2>2. LastCall(d)' = LastCall(d) /\ r.call # LastCall(d)
    BY <1>2, <1>3, <2>1 DEF LastCall
  <2> QED BY <1>1, <2>1, <2>2 DEF WqInv, LossIsFinal
<1> QED BY <1>4, <1>6, <1>7, <1>8, <1>9 DEF WqInv

\* A request is served: whatever it does to the cards, a card that it makes is
\* its own, and an outcome says that a claim is lost only when it made none.
LEMMA ServedKeeps ==
  ASSUME WqInv, NEW r \in requests, requests' = requests \ {r},
         UNCHANGED calls,
         NEW o \in Outcome, Answer(r, o),
         o.is # "none",
         \A k \in cards' : \/ /\ k.made = r.call
                              /\ o.is \notin {"lost", "contended"}
                           \/ \E j \in cards : j.made = k.made
  PROVE  WqInv'
<1> DEFINE c == r.call[1]
<1>1. c \in AnyCaller /\ r.call \in CallId /\ r # NoRequest
  BY DEF WqInv, WqType, CallId
<1>2. \/ /\ waits[c] = r
         /\ waits' = [waits EXCEPT ![c] = NoRequest]
         /\ outcome' = [outcome EXCEPT ![c] = o]
      \/ waits[c] # r /\ UNCHANGED <<waits, outcome>>
  BY DEF Answer
<1>3. r # NoRequest
  BY <1>1
<1>4. \A d \in AnyCaller : waits[d] = r => d = c
  BY <1>1, <1>3 DEF WqInv, WaitsForItsLast, LastCall
<1>5. \A k \in cards' : k.made = r.call \/ \E j \in cards : j.made = k.made
  OBVIOUS
<1> HIDE DEF c
<1>6. WqType'
  <2>1. \A k \in cards' : k.made \in CallId
    BY <1>1, <1>5 DEF WqInv, WqType
  <2>2. waits' \in [AnyCaller -> requests' \cup {NoRequest}]
    <3>1. \A d \in AnyCaller : waits'[d] # r
      BY <1>1, <1>2, <1>3, <1>4 DEF WqInv, WqType
    <3>2. waits' \in [AnyCaller -> requests \cup {NoRequest}]
      BY <1>1, <1>2 DEF WqInv, WqType
    <3> QED BY <3>1, <3>2
  <2>3. outcome' \in [AnyCaller -> Outcome]
    BY <1>1, <1>2 DEF WqInv, WqType
  <2> QED BY <2>1, <2>2, <2>3 DEF WqInv, WqType
<1>7. OneRequestPerCall' /\ CardsAreServed'
  <2>1. \A q \in requests' : q.call # r.call
    BY DEF WqInv, OneRequestPerCall
  <2>2. r.call[2] <= calls[r.call[1]]
    BY DEF WqInv, OneRequestPerCall
  <2>3. ASSUME NEW k \in cards'
        PROVE  k.made[2] <= calls[k.made[1]]
               /\ \A q \in requests' : q.call # k.made
    <3>1. CASE k.made = r.call
      BY <2>1, <2>2, <3>1
    <3>2. CASE \E j \in cards : j.made = k.made
      BY <3>2 DEF WqInv, CardsAreServed
    <3> QED BY <1>5, <3>1, <3>2
  <2> QED BY <2>3 DEF WqInv, OneRequestPerCall, CardsAreServed
<1>8. WaitsForItsLast'
  BY <1>1, <1>2 DEF WqInv, WqType, WaitsForItsLast, LastCall
<1>9. LossIsFinal'
  <2> SUFFICES ASSUME NEW d \in AnyCaller,
                      outcome'[d].is \in {"lost", "contended"}
               PROVE  /\ \A q \in requests' : q.call # LastCall(d)
                      /\ \A k \in cards' : k.made # LastCall(d)
    BY DEF LossIsFinal, LastCall
  <2>1. CASE waits[c] = r /\ d = c
    <3>1. outcome'[c] = o /\ r.call = LastCall(c)
      BY <1>1, <1>2, <1>3, <2>1 DEF WqInv, WqType, WaitsForItsLast
    <3>2. \A k \in cards' : \E j \in cards : j.made = k.made
      BY <2>1, <3>1
    <3>3. \A j \in cards : j.made # r.call
      BY DEF WqInv, CardsAreServed
    <3>4. \A q \in requests' : q.call # r.call
      BY DEF WqInv, OneRequestPerCall
    <3> QED BY <2>1, <3>1, <3>2, <3>3, <3>4
  <2>2. CASE ~(waits[c] = r /\ d = c)
    <3>1. outcome'[d] = outcome[d]
      BY <1>1, <1>2, <2>2 DEF WqInv, WqType
    <3>2. r.call # LastCall(d)
      BY <3>1 DEF WqInv, LossIsFinal
    <3>3. \A j \in cards : j.made # LastCall(d)
      BY <3>1 DEF WqInv, LossIsFinal
    <3>4. \A q \in requests' : q.call # LastCall(d)
      BY <3>1 DEF WqInv, LossIsFinal
    <3> QED BY <1>5, <3>2, <3>3, <3>4
  <2> QED BY <2>1, <2>2
<1> QED BY <1>6, <1>7, <1>8, <1>9 DEF WqInv

LEMMA ServeKeeps ==
  ASSUME WqInv, NEW r \in requests, Serve(r)
  PROVE  WqInv'
<1> DEFINE Kept == \A k \in cards' : \E j \in cards : j.made = k.made
<1>1. requests' = requests \ {r} /\ UNCHANGED calls
      /\ r.call \in CallId /\ \A k \in cards : k.made \in CallId
  BY DEF Serve, WqInv, WqType
<1>2. ASSUME NEW o \in Outcome, o.is # "none",
             Answer(r, o), Kept
      PROVE  WqInv'
  BY <1>1, <1>2, ServedKeeps
<1>3. ASSUME Conflict(r) PROVE WqInv'
  <2>1. PICK k \in Owners(r), envelope \in {"owner", "retry", "other"} :
          Answer(r, ParseConflict(envelope, k))
    BY <1>3 DEF Conflict
  <2>2. k \in cards /\ Kept
    BY <1>3 DEF Owners, Conflict
  <2>3. /\ ParseConflict(envelope, k) \in Outcome
        /\ ParseConflict(envelope, k).is # "none"
    BY <1>1, <2>2 DEF ParseConflict, Outcome
  <2> QED BY <1>2, <2>1, <2>2, <2>3
<1>4. CASE CreateItem(r)
  <2>1. CASE Owners(r) # {}
    BY <1>3, <1>4, <2>1 DEF CreateItem
  <2>2. CASE Owners(r) = {}
    <3> DEFINE k == [made |-> r.call, queue |-> r.queue, refs |-> r.refs]
               o == [is |-> "won", cards |-> {k.made}]
    <3>1. cards' = cards \cup {k} /\ Answer(r, o)
      BY <1>4, <2>2 DEF CreateItem
    <3>2. o \in Outcome /\ o.is = "won" /\ k.made = r.call
      BY <1>1 DEF Outcome
    <3> HIDE DEF o, k
    <3> QED BY <1>1, <3>1, <3>2, ServedKeeps
  <2> QED BY <2>1, <2>2
<1>5. CASE AddRef(r)
  <2>1. PICK k \in cards :
          IF Owners(r) # {} THEN Conflict(r)
          ELSE /\ cards' =
                    (cards \ {k}) \cup {[k EXCEPT !.refs = @ \cup r.refs]}
               /\ Answer(r, [is |-> "won", cards |-> {k.made}])
    BY <1>5 DEF AddRef
  <2>2. CASE Owners(r) # {}
    BY <1>3, <2>1, <2>2
  <2>3. CASE Owners(r) = {}
    <3> DEFINE o == [is |-> "won", cards |-> {k.made}]
    <3>1. o \in Outcome /\ o.is # "none"
      BY <1>1 DEF Outcome
    <3>2. [k EXCEPT !.refs = @ \cup r.refs].made = k.made
      OBVIOUS
    <3>3. Kept
      BY <2>1, <2>3, <3>2
    <3> HIDE DEF Kept
    <3> QED BY <1>2, <2>1, <2>3, <3>1, <3>3
  <2> QED BY <2>2, <2>3
<1>6. CASE ItemCommand(r)
  <2>1. PICK is \in {"done", "error"} : Answer(r, [is |-> is, cards |-> {}])
    BY <1>6 DEF ItemCommand
  <2>2. Kept
    BY <1>6 DEF ItemCommand
  <2>3. [is |-> is, cards |-> {}] \in Outcome
    BY DEF Outcome
  <2> QED BY <1>2, <2>1, <2>2, <2>3
<1>7. CASE DeleteItem(r)
  <2>1. Answer(r, [is |-> "done", cards |-> {}]) /\ Kept
    BY <1>7 DEF DeleteItem
  <2>2. [is |-> "done", cards |-> {}] \in Outcome
    BY DEF Outcome
  <2> QED BY <1>2, <2>1, <2>2
<1>8. CASE GetItemsByRef(r)
  <2> DEFINE o == [is |-> "found",
                   cards |-> {k.made : k \in {k \in cards :
                     /\ r.queue \in {0, k.queue}
                     /\ r.refs \subseteq k.refs}}]
  <2>1. Answer(r, o) /\ Kept
    BY <1>8 DEF GetItemsByRef
  <2>2. o \in Outcome /\ o.is # "none"
    BY <1>1 DEF Outcome
  <2> HIDE DEF o
  <2> QED BY <1>2, <2>1, <2>2
<1>9. CASE NotFound(r)
  <2>1. Answer(r, [is |-> "error", cards |-> {}]) /\ Kept
    BY <1>9 DEF NotFound
  <2>2. [is |-> "error", cards |-> {}] \in Outcome
    BY DEF Outcome
  <2> QED BY <1>2, <2>1, <2>2
<1>10. CASE GetItem(r)
  <2>1. PICK k \in cards :
          Answer(r, [is |-> "found", cards |-> {k.made}])
    BY <1>10 DEF GetItem
  <2> DEFINE o == [is |-> "found", cards |-> {k.made}]
  <2>2. o \in Outcome /\ o.is # "none"
    BY <1>1, <2>1 DEF Outcome
  <2>3. Kept
    BY <1>10 DEF GetItem
  <2>4. Answer(r, o)
    BY <2>1
  <2> HIDE DEF o
  <2> QED BY <1>2, <2>2, <2>3, <2>4
<1> QED BY <1>4, <1>5, <1>6, <1>7, <1>8, <1>9, <1>10 DEF Serve

LEMMA CallFailsKeeps ==
  ASSUME WqInv, NEW c \in AnyCaller, CallFails(c)
  PROVE  WqInv'
<1>1. /\ waits' = [waits EXCEPT ![c] = NoRequest]
      /\ outcome' = [outcome EXCEPT ![c] = [is |-> "error", cards |-> {}]]
      /\ UNCHANGED <<cards, requests, calls>>
  BY DEF CallFails
<1>2. WqType'
  BY <1>1 DEF WqInv, WqType, Outcome
<1>3. OneRequestPerCall' /\ CardsAreServed'
  BY <1>1 DEF WqInv, OneRequestPerCall, CardsAreServed
<1>4. WaitsForItsLast' /\ LossIsFinal'
  BY <1>1 DEF WqInv, WqType, WaitsForItsLast, LossIsFinal, LastCall
<1> QED BY <1>2, <1>3, <1>4 DEF WqInv

LEMMA ScriptChecksKeeps ==
  ASSUME WqInv, ScriptChecks
  PROVE  WqInv'
<1>1. /\ outcome' = [outcome EXCEPT ![ScriptCaller].is = "none"]
      /\ UNCHANGED <<cards, requests, waits, calls>>
  BY DEF ScriptChecks
<1>2. /\ outcome' \in [AnyCaller -> Outcome]
      /\ \A c \in AnyCaller : outcome'[c].is \in {"none", outcome[c].is}
  BY <1>1 DEF WqInv, WqType, Outcome
<1>3. WqType' /\ OneRequestPerCall' /\ CardsAreServed'
  BY <1>1, <1>2 DEF WqInv, WqType, OneRequestPerCall, CardsAreServed
<1>4. WaitsForItsLast' /\ LossIsFinal'
  BY <1>1, <1>2 DEF WqInv, WaitsForItsLast, LossIsFinal, LastCall
<1> QED BY <1>3, <1>4 DEF WqInv

LEMMA WqNextInv == WqInv /\ [WqNext]_wqVars => WqInv'
<1> SUFFICES ASSUME WqInv, [WqNext]_wqVars PROVE WqInv'
  OBVIOUS
<1>1. ASSUME NEW c \in QueueCaller, FreeCall(c) PROVE WqInv'
  <2>1. c \in AnyCaller
    BY DEF AnyCaller
  <2>2. \E o \in {"create", "add_ref", "delete"} : \E card : \E refs :
          Send(c, o, 1, card, refs)
    BY <1>1 DEF FreeCall
  <2> QED BY <2>1, <2>2, SendKeeps
<1>2. ASSUME NEW r \in requests, Serve(r) PROVE WqInv'
  BY <1>2, ServeKeeps
<1>3. ASSUME NEW c \in AnyCaller, CallFails(c) PROVE WqInv'
  BY <1>3, CallFailsKeeps
<1>4. CASE ScriptCalls
  <2>1. ScriptCaller \in AnyCaller
    BY DEF AnyCaller
  <2>2. \E card : Send(ScriptCaller, Line.op, Line.queue, card, Line.refs)
    BY <1>4 DEF ScriptCalls
  <2> QED BY <2>1, <2>2, SendKeeps
<1>5. CASE ScriptChecks
  BY <1>5, ScriptChecksKeeps
<1>6. CASE ScriptSkips \/ UNCHANGED wqVars
  <2>1. UNCHANGED <<cards, requests, waits, calls, outcome>>
    BY <1>6 DEF ScriptSkips, wqVars
  <2> QED
    BY <2>1 DEF WqInv, WqType, OneRequestPerCall, CardsAreServed,
       WaitsForItsLast, LossIsFinal, LastCall
<1> QED BY <1>1, <1>2, <1>3, <1>4, <1>5, <1>6 DEF WqNext

\* Inductive: one request per call at most, waited for until it is answered,
\* and every card is of a request that was served.
THEOREM WqInvariant == WqSpec => []WqInv
BY WqInitInv, WqNextInv, PTL DEF WqSpec

\* For any callers, references and number of calls: a claim reported lost or
\* contended has left no card, since POST is sent once and a request that was
\* answered is not on its way any more.
THEOREM LossesLeaveNoCard == WqSpec => []NoCardBehindALoss
<1>1. WqInv => NoCardBehindALoss
  BY DEF WqInv, LossIsFinal, NoCardBehindALoss, LastCall
<1> QED BY WqInvariant, <1>1, PTL

-----------------------------------------------------------------------------
(***************************************************************************)
(* The example, however many of its calls raise.  While none but the       *)
(* publication has raised, the cards on the server and the cards that the  *)
(* example remembers are functions of the line that is next.  A request    *)
(* that raised may still be served; only that of a publication, which      *)
(* changes no card, is served while the example goes on.                   *)
(***************************************************************************)

\* The line that makes the card of each name, and the one that deletes it.
MadeAt(s) ==
  CASE s = "A" -> 1 [] s = "B" -> 6 [] s = "C" -> 9 [] s = "D" -> 10
    [] OTHER -> 18
GoneAt(s) ==
  CASE s = "A" -> 23 [] s = "B" -> 26 [] s = "C" -> 14 [] s = "D" -> 15
    [] OTHER -> 21
QueueAt(s) == IF s \in {"B", "D"} THEN 2 ELSE 1
RefsAt(s, i) ==
  CASE s = "A" -> IF i > 17 THEN {"file_a", "hash_a", "hash_new"}
                            ELSE {"file_a", "hash_a"}
    [] s = "B" -> {"file_b"}
    [] s \in {"C", "D"} -> {"shared"}
    [] OTHER -> {}
CardAt(s, i) ==
  [made |-> <<ScriptCaller, MadeAt(s)>>, queue |-> QueueAt(s),
   refs |-> RefsAt(s, i)]

\* The cards there are, and those the example remembers, when line i is next.
HeldNames(i) == {s \in Slot : MadeAt(s) < i /\ i <= GoneAt(s)}
Held(i) == {CardAt(s, i) : s \in HeldNames(i)}
NotedAt(i) ==
  [s \in Slot |-> IF MadeAt(s) < i /\ (s = "A" => i < FirstCleanUp)
                  THEN {<<ScriptCaller, MadeAt(s)>>} ELSE {}]

\* The request of line i, as call n, and the outcome that the line asserts.
CardOfLine(i) ==
  IF WqScript[i].slot \in Slot /\ WqScript[i].op # "create"
  THEN NotedAt(i)[WqScript[i].slot] ELSE {}
RequestOf(i, n) ==
  [call |-> <<ScriptCaller, n>>, op |-> WqScript[i].op,
   queue |-> WqScript[i].queue, card |-> CardOfLine(i),
   refs |-> WqScript[i].refs]
Asserted(i) ==
  [is |-> WqScript[i].is,
   cards |-> {<<ScriptCaller, MadeAt(s)>> : s \in WqScript[i].names}]

LEMMA ScriptIs ==
  /\ Len(WqScript) = 26 /\ FirstCleanUp = 25
  /\ WqScript[1] = Do("create", 1, "A", {"file_a", "hash_a"}, "won", {"A"})
  /\ WqScript[2] = Do("create", 1, "none", {"file_a"}, "lost", {"A"})
  /\ WqScript[3] = Do("create", 1, "none", {"file_a"}, "lost", {"A"})
  /\ WqScript[4] = Do("get", 1, "A", {}, "found", {"A"})
  /\ WqScript[5] = Do("lookup", 0, "none", {"file_a"}, "found", {"A"})
  /\ WqScript[6] = Do("create", 2, "B", {"file_b"}, "won", {"B"})
  /\ WqScript[7] = Do("lookup", 2, "none", {"file_b"}, "found", {"B"})
  /\ WqScript[8] = Do("lookup", 1, "none", {"file_b"}, "found", {})
  /\ WqScript[9] = Do("create", 1, "C", {"shared"}, "won", {"C"})
  /\ WqScript[10] = Do("create", 2, "D", {"shared"}, "won", {"D"})
  /\ WqScript[11] = Do("lookup", 0, "none", {"shared"}, "found", {"C", "D"})
  /\ WqScript[12] = Do("lookup", 1, "none", {"shared"}, "found", {"C"})
  /\ WqScript[13] = Do("lookup", 2, "none", {"shared"}, "found", {"D"})
  /\ WqScript[14] = Do("delete", 1, "C", {}, "done", {})
  /\ WqScript[15] = Do("delete", 2, "D", {}, "done", {})
  /\ WqScript[16] = Do("lookup", 0, "none", {"missing"}, "found", {})
  /\ WqScript[17] = Do("add_ref", 1, "A", {"hash_new"}, "won", {"A"})
  /\ WqScript[18] = Do("create", 1, "rival", {}, "won", {"rival"})
  /\ WqScript[19] = Do("add_ref", 1, "rival", {"file_a"}, "lost", {"A"})
  /\ WqScript[20] = Do("add_ref", 1, "rival", {"file_a"}, "lost", {"A"})
  /\ WqScript[21] = Do("delete", 1, "rival", {}, "done", {})
  /\ WqScript[22] = Do("publish", 1, "A", {}, "done", {})
  /\ WqScript[23] = Do("delete", 1, "A", {}, "done", {})
  /\ WqScript[24] = Do("lookup", 0, "none", {"file_a"}, "found", {})
  /\ WqScript[25] = Do("delete", 1, "A", {}, "done", {})
  /\ WqScript[26] = Do("delete", 2, "B", {}, "done", {})
BY DEF WqScript, FirstCleanUp, ClaimSteps, ForgetSteps, CleanUp

\* What each name is held for.
LEMMA NamesAre ==
  /\ HeldNames(1) = {} /\ HeldNames(2) = {"A"} /\ HeldNames(3) = {"A"}
  /\ HeldNames(4) = {"A"} /\ HeldNames(5) = {"A"} /\ HeldNames(6) = {"A"}
  /\ HeldNames(7) = {"A", "B"} /\ HeldNames(8) = {"A", "B"}
  /\ HeldNames(9) = {"A", "B"} /\ HeldNames(10) = {"A", "B", "C"}
  /\ HeldNames(11) = {"A", "B", "C", "D"} /\ HeldNames(12) = HeldNames(11)
  /\ HeldNames(13) = HeldNames(11) /\ HeldNames(14) = HeldNames(11)
  /\ HeldNames(15) = {"A", "B", "D"} /\ HeldNames(16) = {"A", "B"}
  /\ HeldNames(17) = {"A", "B"} /\ HeldNames(18) = {"A", "B"}
  /\ HeldNames(19) = {"A", "B", "rival"} /\ HeldNames(20) = HeldNames(19)
  /\ HeldNames(21) = HeldNames(19) /\ HeldNames(22) = {"A", "B"}
  /\ HeldNames(23) = {"A", "B"} /\ HeldNames(24) = {"B"}
  /\ HeldNames(25) = {"B"} /\ HeldNames(26) = {"B"} /\ HeldNames(27) = {}
BY DEF HeldNames, Slot, MadeAt, GoneAt

LEMMA TablesAre ==
  /\ MadeAt("A") = 1 /\ MadeAt("B") = 6 /\ MadeAt("C") = 9
  /\ MadeAt("D") = 10 /\ MadeAt("rival") = 18
  /\ QueueAt("A") = 1 /\ QueueAt("B") = 2 /\ QueueAt("C") = 1
  /\ QueueAt("D") = 2 /\ QueueAt("rival") = 1
  /\ \A i \in 1..17 : RefsAt("A", i) = {"file_a", "hash_a"}
  /\ \A i \in 18..27 : RefsAt("A", i) = {"file_a", "hash_a", "hash_new"}
  /\ \A i \in 1..27 : /\ RefsAt("B", i) = {"file_b"}
                      /\ RefsAt("C", i) = {"shared"}
                      /\ RefsAt("D", i) = {"shared"}
                      /\ RefsAt("rival", i) = {}
BY DEF MadeAt, QueueAt, RefsAt

LEMMA MadeApart ==
  \A s, t \in Slot :
    /\ <<ScriptCaller, MadeAt(s)>> = <<ScriptCaller, MadeAt(t)>> => s = t
    /\ MadeAt(s) \in 1..18
BY DEF Slot, MadeAt

LEMMA CardIs ==
  ASSUME NEW s, NEW i
  PROVE  /\ CardAt(s, i).made = <<ScriptCaller, MadeAt(s)>>
         /\ CardAt(s, i).queue = QueueAt(s) /\ CardAt(s, i).refs = RefsAt(s, i)
BY DEF CardAt

\* Only the added reference changes a card.
LEMMA CardsStay ==
  ASSUME NEW i \in 1..26, NEW s \in Slot, i # 17 \/ s # "A"
  PROVE  CardAt(s, i + 1) = CardAt(s, i)
BY DEF CardAt, RefsAt, Slot

\* A claim that nothing held refuses makes the card of its line.
LEMMA ClaimWins ==
  ASSUME NEW i \in 1..26, NEW s \in Slot, NEW r, CreateItem(r),
         cards = Held(i), r.call = <<ScriptCaller, i>>, MadeAt(s) = i,
         r.queue = QueueAt(s), r.refs = RefsAt(s, i + 1),
         HeldNames(i + 1) = HeldNames(i) \cup {s}, i # 17,
         \A t \in HeldNames(i) :
           QueueAt(t) = r.queue => RefsAt(t, i) \cap r.refs = {}
  PROVE  /\ cards' = Held(i + 1)
         /\ Answer(r, [is |-> "won", cards |-> {<<ScriptCaller, MadeAt(s)>>}])
<1>1. Owners(r) = {}
  BY CardIs DEF Owners, Held
<1>2. [made |-> r.call, queue |-> r.queue, refs |-> r.refs] = CardAt(s, i + 1)
  BY DEF CardAt
<1>3. \A t \in HeldNames(i) : CardAt(t, i + 1) = CardAt(t, i)
  BY CardsStay DEF HeldNames
<1>4. Held(i + 1) = Held(i) \cup {CardAt(s, i + 1)}
  BY <1>3 DEF Held
<1>5. /\ cards' = cards \cup {CardAt(s, i + 1)}
      /\ Answer(r, [is |-> "won", cards |-> {CardAt(s, i + 1).made}])
  BY <1>1, <1>2 DEF CreateItem
<1> QED BY <1>4, <1>5, CardIs

\* The example is told the owner, which is the card A.
LEMMA ClaimLoses ==
  ASSUME NEW i \in 1..26, NEW r, CreateItem(r) \/ AddRef(r),
         cards = Held(i), wqStep # 0,
         HeldNames(i + 1) = HeldNames(i), i # 17, "A" \in HeldNames(i),
         \A t \in HeldNames(i) :
           /\ QueueAt(t) = r.queue /\ RefsAt(t, i) \cap r.refs # {}
           /\ <<ScriptCaller, MadeAt(t)>> \notin r.card
           <=> t = "A"
  PROVE  /\ cards' = Held(i + 1)
         /\ Answer(r, [is |-> "lost",
                       cards |-> {<<ScriptCaller, MadeAt("A")>>}])
<1>1. Owners(r) = {CardAt("A", i)}
  <2>1. \A t \in HeldNames(i) : CardAt(t, i) \in Owners(r) <=> t = "A"
    BY CardIs DEF Owners, Held
  <2>2. Owners(r) \subseteq {CardAt(t, i) : t \in HeldNames(i)}
    BY DEF Owners, Held
  <2> QED BY <2>1, <2>2
<1>2. \A t \in HeldNames(i) : CardAt(t, i + 1) = CardAt(t, i)
  BY CardsStay DEF HeldNames
<1>3. Held(i + 1) = Held(i)
  BY <1>2 DEF Held
<1>4. Conflict(r)
  BY <1>1 DEF CreateItem, AddRef
<1>5. UNCHANGED cards /\ Answer(r, ParseConflict("owner", CardAt("A", i)))
  BY <1>1, <1>4 DEF Conflict
<1> QED BY <1>3, <1>5, CardIs DEF ParseConflict

\* A lookup finds the names that it asks for.
LEMMA LookupFinds ==
  ASSUME NEW i \in 1..26, NEW names \in SUBSET HeldNames(i), NEW r,
         GetItemsByRef(r), cards = Held(i),
         HeldNames(i + 1) = HeldNames(i), i # 17,
         \A t \in HeldNames(i) :
           r.queue \in {0, QueueAt(t)} /\ r.refs \subseteq RefsAt(t, i)
           <=> t \in names
  PROVE  /\ cards' = Held(i + 1)
         /\ Answer(r, [is |-> "found",
                       cards |-> {<<ScriptCaller, MadeAt(s)>> : s \in names}])
<1>1. \A t \in HeldNames(i) : CardAt(t, i + 1) = CardAt(t, i)
  BY CardsStay DEF HeldNames
<1>2. Held(i + 1) = Held(i)
  BY <1>1 DEF Held
<1> DEFINE found == {k \in cards : /\ r.queue \in {0, k.queue}
                                   /\ r.refs \subseteq k.refs}
<1>3. {k.made : k \in found} = {<<ScriptCaller, MadeAt(s)>> : s \in names}
  <2>1. found = {CardAt(s, i) : s \in names}
    BY CardIs DEF Held
  <2>2. \A t \in names : CardAt(t, i).made = <<ScriptCaller, MadeAt(t)>>
    BY CardIs
  <2>3. {k.made : k \in found} = {CardAt(t, i).made : t \in names}
    BY <2>1
  <2> QED BY <2>2, <2>3
<1> QED BY <1>2, <1>3 DEF GetItemsByRef

\* Deleting a card that is held leaves the others.
LEMMA DeleteWorks ==
  ASSUME NEW i \in 1..26, NEW s \in HeldNames(i), NEW r, DeleteItem(r),
         cards = Held(i), r.card = {<<ScriptCaller, MadeAt(s)>>},
         HeldNames(i + 1) = HeldNames(i) \ {s}, i # 17
  PROVE  cards' = Held(i + 1) /\ Answer(r, [is |-> "done", cards |-> {}])
<1>1. \A t \in HeldNames(i) : CardAt(t, i + 1) = CardAt(t, i)
  BY CardsStay DEF HeldNames
<1>2. \A t \in HeldNames(i) : CardAt(t, i).made \in r.card <=> t = s
  <2>1. HeldNames(i) \subseteq Slot
    BY DEF HeldNames
  <2>2. \A t \in HeldNames(i) :
          <<ScriptCaller, MadeAt(t)>> = <<ScriptCaller, MadeAt(s)>> <=> t = s
    BY <2>1, MadeApart
  <2> QED BY <2>2, CardIs
<1>3. Held(i + 1) = Held(i) \ {CardAt(s, i)}
  <2>1. \A t \in HeldNames(i) : CardAt(t, i) = CardAt(s, i) => t = s
    BY <1>2
  <2> QED BY <1>1, <2>1 DEF Held
<1>4. PICK k \in cards : /\ k.made \in r.card /\ cards' = cards \ {k}
                         /\ Answer(r, [is |-> "done", cards |-> {}])
  BY DEF DeleteItem
<1>5. k = CardAt(s, i)
  BY <1>2, <1>4 DEF Held
<1> QED BY <1>3, <1>4, <1>5

\* The reference is added to the card A.
LEMMA AddRefWins ==
  ASSUME NEW r, AddRef(r), cards = Held(17), r.queue = 1,
         r.card = {<<ScriptCaller, MadeAt("A")>>}, r.refs = {"hash_new"}
  PROVE  /\ cards' = Held(18)
         /\ Answer(r, [is |-> "won",
                       cards |-> {<<ScriptCaller, MadeAt("A")>>}])
<1>1. Owners(r) = {}
  <2>1. \A t \in HeldNames(17) : RefsAt(t, 17) \cap {"hash_new"} = {}
    BY NamesAre, TablesAre
  <2> QED BY <2>1, CardIs DEF Owners, Held
<1>2. PICK k \in cards :
        /\ k.made \in r.card
        /\ cards' = (cards \ {k}) \cup {[k EXCEPT !.refs = @ \cup r.refs]}
        /\ Answer(r, [is |-> "won", cards |-> {k.made}])
  BY <1>1 DEF AddRef
<1>3. Held(17) = {CardAt("A", 17), CardAt("B", 17)}
      /\ Held(18) = {CardAt("A", 18), CardAt("B", 18)}
  BY NamesAre DEF Held
<1>4. k = CardAt("A", 17) /\ CardAt("A", 17) # CardAt("B", 17)
  BY <1>2, <1>3, CardIs, TablesAre
<1>5. [k EXCEPT !.refs = @ \cup r.refs] = CardAt("A", 18)
  <2>1. k = [made |-> <<ScriptCaller, MadeAt("A")>>, queue |-> QueueAt("A"),
             refs |-> RefsAt("A", 17)]
    BY <1>4 DEF CardAt
  <2>2. RefsAt("A", 17) \cup r.refs = RefsAt("A", 18)
    BY TablesAre
  <2> QED BY <2>1, <2>2 DEF CardAt
<1>6. CardAt("B", 18) = CardAt("B", 17)
  BY CardsStay DEF Slot
<1> QED BY <1>2, <1>3, <1>4, <1>5, <1>6, CardIs

\* The server treats a request by its operation, and one that names a card
\* that is there as such.
LEMMA ServedAs ==
  ASSUME NEW r, Serve(r), NEW there,
         there <=> \E k \in cards : k.made \in r.card
  PROVE  /\ r.op = "create" => CreateItem(r)
         /\ r.op = "lookup" => GetItemsByRef(r)
         /\ r.op = "get" /\ there => GetItem(r)
         /\ r.op = "delete" /\ there => DeleteItem(r)
         /\ r.op = "add_ref" /\ there => AddRef(r)
         /\ r.op = "publish" /\ there => ItemCommand(r)
BY DEF Serve, CreateItem, GetItem, GetItemsByRef, DeleteItem, AddRef,
   ItemCommand, NotFound

\* A request of a line, and the answer that it gets when the cards are those
\* of the line: the one that the example asserts.
Answers(i, n) ==
  wqStep = i /\ cards = Held(i) =>
    \A r : r = RequestOf(i, n) /\ Serve(r) =>
      /\ cards' = Held(i + 1)
      /\ IF WqScript[i].op = "publish"
         THEN \E is \in {"done", "error"} :
                Answer(r, [is |-> is, cards |-> {}])
         ELSE Answer(r, Asserted(i))

LEMMA CreatesAnswer == \A i \in {1, 6, 9, 10, 18} : Answers(i, i)
<1> SUFFICES ASSUME NEW i \in {1, 6, 9, 10, 18}, wqStep = i, cards = Held(i),
                    NEW r, r = RequestOf(i, i), Serve(r)
             PROVE  /\ cards' = Held(i + 1) /\ Answer(r, Asserted(i))
                    /\ WqScript[i].op # "publish"
  BY DEF Answers
<1> DEFINE s == WqScript[i].slot
<1>1. /\ r.op = "create" /\ r.call = <<ScriptCaller, i>>
      /\ r.queue = WqScript[i].queue /\ r.refs = WqScript[i].refs
  BY ScriptIs DEF RequestOf, Do
<1>2. CreateItem(r)
  BY <1>1, ServedAs
<1>3. /\ s \in Slot /\ WqScript[i].op = "create" /\ MadeAt(s) = i
      /\ WqScript[i].queue = QueueAt(s)
      /\ WqScript[i].refs = RefsAt(s, i + 1)
      /\ WqScript[i].is = "won" /\ WqScript[i].names = {s}
      /\ HeldNames(i + 1) = HeldNames(i) \cup {s}
      /\ i \in 1..26 /\ i # 17
  <2>1. CASE i = 1
    BY <2>1, ScriptIs, NamesAre, TablesAre DEF Do, Slot
  <2>2. CASE i = 6
    BY <2>2, ScriptIs, NamesAre, TablesAre DEF Do, Slot
  <2>3. CASE i = 9
    BY <2>3, ScriptIs, NamesAre, TablesAre DEF Do, Slot
  <2>4. CASE i = 10
    BY <2>4, ScriptIs, NamesAre, TablesAre DEF Do, Slot
  <2>5. CASE i = 18
    BY <2>5, ScriptIs, NamesAre, TablesAre DEF Do, Slot
  <2> QED BY <2>1, <2>2, <2>3, <2>4, <2>5
<1>4. \A t \in HeldNames(i) :
        QueueAt(t) = r.queue => RefsAt(t, i) \cap r.refs = {}
  BY <1>1, ScriptIs, NamesAre, TablesAre DEF Do
<1>5. Asserted(i) = [is |-> "won", cards |-> {<<ScriptCaller, MadeAt(s)>>}]
  BY <1>3 DEF Asserted
<1> HIDE DEF s
<1> QED BY <1>1, <1>2, <1>3, <1>4, <1>5, ClaimWins

LEMMA LossesAnswer == \A i \in {2, 3, 19, 20} : Answers(i, i)
<1> SUFFICES ASSUME NEW i \in {2, 3, 19, 20}, wqStep = i, cards = Held(i),
                    NEW r, r = RequestOf(i, i), Serve(r)
             PROVE  /\ cards' = Held(i + 1) /\ Answer(r, Asserted(i))
                    /\ WqScript[i].op # "publish"
  BY DEF Answers
<1>1. /\ r.queue = 1 /\ r.refs = {"file_a"} /\ r.op = WqScript[i].op
      /\ WqScript[i].op = IF i < 4 THEN "create" ELSE "add_ref"
      /\ r.card = IF i < 4 THEN {} ELSE {<<ScriptCaller, MadeAt("rival")>>}
      /\ WqScript[i].is = "lost" /\ WqScript[i].names = {"A"}
  <2>1. CASE i \in {2, 3}
    BY <2>1, ScriptIs DEF RequestOf, CardOfLine, Slot, Do
  <2>2. CASE i = 19
    BY <2>2, ScriptIs, TablesAre DEF RequestOf, CardOfLine, NotedAt, Slot, Do
  <2>3. CASE i = 20
    BY <2>3, ScriptIs, TablesAre DEF RequestOf, CardOfLine, NotedAt, Slot, Do
  <2> QED BY <2>1, <2>2, <2>3
<1>2. /\ HeldNames(i + 1) = HeldNames(i) /\ "A" \in HeldNames(i)
      /\ \A t \in HeldNames(i) : t # "A" =>
           \/ QueueAt(t) # 1
           \/ i >= 4 /\ t = "rival"
      /\ RefsAt("A", i) \cap {"file_a"} # {} /\ QueueAt("A") = 1
      /\ i \in 1..26 /\ i # 17
  <2>1. /\ HeldNames(i + 1) = HeldNames(i)
        /\ HeldNames(i) = IF i < 4 THEN {"A"} ELSE {"A", "B", "rival"}
    BY NamesAre
  <2>2. QueueAt("A") = 1 /\ QueueAt("B") = 2 /\ "file_a" \in RefsAt("A", i)
    BY TablesAre
  <2> QED BY <2>1, <2>2
<1>3. <<ScriptCaller, MadeAt("A")>> # <<ScriptCaller, MadeAt("rival")>>
  BY TablesAre
<1>4. \A t \in HeldNames(i) :
        /\ QueueAt(t) = r.queue /\ RefsAt(t, i) \cap r.refs # {}
        /\ <<ScriptCaller, MadeAt(t)>> \notin r.card
        <=> t = "A"
  BY <1>1, <1>2, <1>3
<1>5. CreateItem(r) \/ AddRef(r)
  <2>1. CASE i < 4
    BY <1>1, <2>1, ServedAs
  <2>2. CASE i >= 4
    <3>1. CardAt("rival", i) \in cards
      BY <2>2, NamesAre DEF Held
    <3>2. CardAt("rival", i).made \in r.card
      <4>1. r.card = {<<ScriptCaller, MadeAt("rival")>>}
        BY <1>1, <2>2
      <4>2. CardAt("rival", i).made = <<ScriptCaller, MadeAt("rival")>>
        BY CardIs DEF Slot
      <4> QED BY <4>1, <4>2
    <3> HIDE DEF RequestOf
    <3> QED BY <1>1, <2>2, <3>1, <3>2, ServedAs
  <2> QED BY <2>1, <2>2
<1>6. Asserted(i) = [is |-> "lost", cards |-> {<<ScriptCaller, MadeAt("A")>>}]
  BY <1>1 DEF Asserted
<1> HIDE DEF RequestOf
<1>7. i \in 1..26 /\ i # 17 /\ wqStep # 0
  BY <1>2
<1>8. cards' = Held(i + 1) /\ Answer(r, Asserted(i))
  BY <1>2, <1>4, <1>5, <1>6, <1>7, ClaimLoses
<1> QED BY <1>1, <1>8

LEMMA LookupsAnswer == \A i \in {5, 7, 8, 11, 12, 13, 16, 24} : Answers(i, i)
<1> SUFFICES ASSUME NEW i \in {5, 7, 8, 11, 12, 13, 16, 24}, wqStep = i,
                    cards = Held(i), NEW r, r = RequestOf(i, i), Serve(r)
             PROVE  /\ cards' = Held(i + 1) /\ Answer(r, Asserted(i))
                    /\ WqScript[i].op # "publish"
  BY DEF Answers
<1> DEFINE names == WqScript[i].names
<1>1. /\ r.op = "lookup" /\ WqScript[i].op = "lookup"
      /\ r.queue = WqScript[i].queue /\ r.refs = WqScript[i].refs
      /\ WqScript[i].is = "found"
  BY ScriptIs DEF RequestOf, Do
<1>2. GetItemsByRef(r)
  BY <1>1, ServedAs
<1>3. /\ names \subseteq HeldNames(i) /\ HeldNames(i + 1) = HeldNames(i)
      /\ i \in 1..26 /\ i # 17
      /\ \A t \in HeldNames(i) :
           /\ WqScript[i].queue \in {0, QueueAt(t)}
           /\ WqScript[i].refs \subseteq RefsAt(t, i)
           <=> t \in names
  <2>1. /\ i + 1 \in 6..25 /\ HeldNames(i + 1) = HeldNames(i)
        /\ i \in 1..26 /\ i # 17
    BY NamesAre
  <2>2. CASE i = 5
    <3>1. /\ HeldNames(i) = {"A"} /\ names = {"A"}
          /\ WqScript[i].queue = 0 /\ WqScript[i].refs = {"file_a"}
      BY <2>2, ScriptIs, NamesAre DEF Do
    <3>2. "file_a" \in RefsAt("A", i)
      BY <2>2, TablesAre
    <3> QED BY <2>1, <3>1, <3>2
  <2>3. CASE i \in {7, 8}
    <3>1. /\ HeldNames(i) = {"A", "B"} /\ WqScript[i].refs = {"file_b"}
          /\ names = IF i = 7 THEN {"B"} ELSE {}
          /\ WqScript[i].queue = IF i = 7 THEN 2 ELSE 1
      <4>1. CASE i = 7
        BY <4>1, ScriptIs, NamesAre DEF Do
      <4>2. CASE i = 8
        BY <4>2, ScriptIs, NamesAre DEF Do
      <4> QED BY <2>3, <4>1, <4>2
    <3>2. /\ RefsAt("A", i) = {"file_a", "hash_a"} /\ QueueAt("A") = 1
          /\ RefsAt("B", i) = {"file_b"} /\ QueueAt("B") = 2
      BY <2>3, TablesAre
    <3> QED BY <2>1, <3>1, <3>2
  <2>4. CASE i \in {11, 12, 13}
    <3>1. /\ HeldNames(i) = {"A", "B", "C", "D"}
          /\ WqScript[i].refs = {"shared"}
          /\ names = IF i = 11 THEN {"C", "D"} ELSE IF i = 12 THEN {"C"}
                     ELSE {"D"}
          /\ WqScript[i].queue = i - 11
      <4>1. CASE i = 11
        BY <4>1, ScriptIs, NamesAre DEF Do
      <4>2. CASE i = 12
        BY <4>2, ScriptIs, NamesAre DEF Do
      <4>3. CASE i = 13
        BY <4>3, ScriptIs, NamesAre DEF Do
      <4> QED BY <2>4, <4>1, <4>2, <4>3
    <3>2. /\ RefsAt("A", i) = {"file_a", "hash_a"}
          /\ RefsAt("B", i) = {"file_b"}
          /\ RefsAt("C", i) = {"shared"} /\ RefsAt("D", i) = {"shared"}
          /\ QueueAt("C") = 1 /\ QueueAt("D") = 2
      BY <2>4, TablesAre
    <3>3. \A t \in HeldNames(i) :
            {"shared"} \subseteq RefsAt(t, i) <=> t \in {"C", "D"}
      BY <3>1, <3>2
    <3>4. /\ i - 11 \in {0, QueueAt("C")} <=> i # 13
          /\ i - 11 \in {0, QueueAt("D")} <=> i # 12
      BY <2>4, <3>2
    <3> QED BY <2>1, <2>4, <3>1, <3>3, <3>4
  <2>5. CASE i = 24
    <3>1. /\ HeldNames(i) = {"B"} /\ names = {}
          /\ WqScript[i].queue = 0 /\ WqScript[i].refs = {"file_a"}
      BY <2>5, ScriptIs, NamesAre DEF Do
    <3>2. RefsAt("B", i) = {"file_b"}
      BY <2>5, TablesAre
    <3> QED BY <2>1, <3>1, <3>2
  <2>6. CASE i = 16
    <3>1. /\ HeldNames(i) = {"A", "B"} /\ names = {}
          /\ WqScript[i].queue = 0 /\ WqScript[i].refs = {"missing"}
      BY <2>6, ScriptIs, NamesAre DEF Do
    <3>2. /\ RefsAt("A", i) = {"file_a", "hash_a"}
          /\ RefsAt("B", i) = {"file_b"}
      BY <2>6, TablesAre
    <3> QED BY <2>1, <3>1, <3>2
  <2> QED BY <2>2, <2>3, <2>4, <2>5, <2>6
<1>4. \A t \in HeldNames(i) :
        r.queue \in {0, QueueAt(t)} /\ r.refs \subseteq RefsAt(t, i)
        <=> t \in names
  BY <1>1, <1>3
<1>5. Asserted(i) = [is |-> "found",
                     cards |-> {<<ScriptCaller, MadeAt(s)>> : s \in names}]
  BY <1>1 DEF Asserted
<1> HIDE DEF names
<1> QED BY <1>1, <1>2, <1>3, <1>4, <1>5, LookupFinds

\* Item A is fetched.
LEMMA GetAnswers == Answers(4, 4)
<1> SUFFICES ASSUME wqStep = 4, cards = Held(4),
                    NEW r, r = RequestOf(4, 4), Serve(r)
             PROVE  /\ cards' = Held(5) /\ Answer(r, Asserted(4))
                    /\ WqScript[4].op # "publish"
  BY DEF Answers
<1>1. /\ r.card = {<<ScriptCaller, MadeAt("A")>>} /\ r.op = "get"
      /\ WqScript[4].op = "get" /\ WqScript[4].is = "found"
      /\ WqScript[4].names = {"A"}
  BY ScriptIs, TablesAre DEF RequestOf, CardOfLine, NotedAt, Slot, Do
<1> HIDE DEF RequestOf
<1>2. Held(4) = {CardAt("A", 4)} /\ Held(5) = Held(4)
  <2>1. CardAt("A", 5) = CardAt("A", 4)
    BY CardsStay DEF Slot
  <2> QED BY <2>1, NamesAre DEF Held
<1>3. GetItem(r)
  BY <1>1, <1>2, CardIs, ServedAs
<1>4. Asserted(4) = [is |-> "found", cards |-> {<<ScriptCaller, MadeAt("A")>>}]
  BY <1>1 DEF Asserted
<1> QED BY <1>1, <1>2, <1>3, <1>4, CardIs DEF GetItem

\* The deletions of the script, and that of its clean-up.
LEMMA DeletesAnswer ==
  ASSUME NEW n PROVE \A i \in {14, 15, 21, 23, 26} : Answers(i, n)
<1> SUFFICES ASSUME NEW i \in {14, 15, 21, 23, 26}, wqStep = i,
                    cards = Held(i),
                    NEW r, r = RequestOf(i, n), Serve(r)
             PROVE  /\ cards' = Held(i + 1) /\ Answer(r, Asserted(i))
                    /\ WqScript[i].op # "publish"
  BY DEF Answers
<1> DEFINE s == WqScript[i].slot
<1>1. /\ s \in HeldNames(i) /\ HeldNames(i + 1) = HeldNames(i) \ {s}
      /\ WqScript[i].op = "delete" /\ r.op = "delete"
      /\ WqScript[i].is = "done" /\ WqScript[i].names = {}
      /\ i \in 1..26 /\ i # 17
  BY ScriptIs, NamesAre DEF Do, RequestOf
<1>2. r.card = {<<ScriptCaller, MadeAt(s)>>}
  BY ScriptIs, TablesAre DEF RequestOf, CardOfLine, NotedAt, Slot, Do
<1>3. \E k \in cards : k.made \in r.card
  <2>1. CardAt(s, i) \in cards /\ CardAt(s, i).made \in r.card
    BY <1>1, <1>2, CardIs DEF Held
  <2> QED BY <2>1
<1>4. DeleteItem(r)
  BY <1>1, <1>3, ServedAs
<1>5. Asserted(i) = [is |-> "done", cards |-> {}]
  BY <1>1 DEF Asserted
<1> HIDE DEF s
<1> QED BY <1>1, <1>2, <1>4, <1>5, DeleteWorks

LEMMA OthersAnswer == Answers(17, 17) /\ Answers(22, 22)
<1> SUFFICES ASSUME NEW i \in {17, 22}, wqStep = i, cards = Held(i),
                    NEW r, r = RequestOf(i, i), Serve(r)
             PROVE  /\ cards' = Held(i + 1)
                    /\ IF i = 22
                       THEN /\ WqScript[i].op = "publish"
                            /\ \E is \in {"done", "error"} :
                                 Answer(r, [is |-> is, cards |-> {}])
                       ELSE /\ WqScript[i].op # "publish"
                            /\ Answer(r, Asserted(i))
  BY DEF Answers
<1>1. /\ r.card = {<<ScriptCaller, MadeAt("A")>>} /\ r.queue = 1
      /\ WqScript[i].op = IF i = 17 THEN "add_ref" ELSE "publish"
      /\ r.op = WqScript[i].op
      /\ i = 17 => r.refs = {"hash_new"}
  BY ScriptIs, TablesAre DEF RequestOf, CardOfLine, NotedAt, Slot, Do
<1>2. \E k \in cards : k.made \in r.card
  <2>1. CardAt("A", i) \in cards
    BY NamesAre DEF Held
  <2> QED BY <1>1, <2>1, CardIs
<1>3. CASE i = 17
  <2>1. AddRef(r)
    BY <1>1, <1>2, <1>3, ServedAs
  <2>2. Asserted(17) =
          [is |-> "won", cards |-> {<<ScriptCaller, MadeAt("A")>>}]
    <3>1. WqScript[17].is = "won" /\ WqScript[17].names = {"A"}
      BY ScriptIs DEF Do
    <3> QED BY <3>1 DEF Asserted
  <2>3. cards = Held(17) /\ r.queue = 1 /\ r.refs = {"hash_new"}
        /\ WqScript[i].op = "add_ref"
    BY <1>1, <1>3
  <2> HIDE DEF RequestOf
  <2>4. /\ cards' = Held(18)
        /\ Answer(r, [is |-> "won",
                      cards |-> {<<ScriptCaller, MadeAt("A")>>}])
    BY <1>1, <2>1, <2>3, AddRefWins
  <2> QED BY <1>3, <2>2, <2>3, <2>4
<1>4. CASE i = 22
  <2>1. ItemCommand(r)
    BY <1>1, <1>2, <1>4, ServedAs
  <2>2. Held(23) = Held(22)
    <3>1. \A t \in HeldNames(22) : CardAt(t, 23) = CardAt(t, 22)
      BY CardsStay DEF HeldNames
    <3> QED BY <3>1, NamesAre DEF Held
  <2> QED BY <1>1, <1>4, <2>1, <2>2 DEF ItemCommand
<1> QED BY <1>3, <1>4

----------------------------------------------------------------------------
\* How far the example is with its line, while nothing but its publication
\* has raised: about to call, waiting, answered as it asserts, or told that
\* the call raised, which starts the clean-up.
Ready(w, o) ==
  /\ w = NoRequest /\ o.is = "none" /\ cards = Held(wqStep)
  /\ wqStep < FirstCleanUp => calls[ScriptCaller] = wqStep - 1
Begun ==
  /\ wqStep \in 1 .. Len(WqScript) /\ wqStep # FirstCleanUp
  /\ wqStep < FirstCleanUp => calls[ScriptCaller] = wqStep
Asked(w) ==
  Begun /\ w = RequestOf(wqStep, calls[ScriptCaller]) /\ cards = Held(wqStep)
Told(w, o) ==
  /\ Begun /\ w = NoRequest /\ cards = Held(wqStep + 1)
  /\ IF Line.op = "publish" THEN o.is \in {"done", "error"}
                            ELSE o = Asserted(wqStep)
Raised(w, o) ==
  Begun /\ w = NoRequest /\ o.is = "error" /\ Line.op # "publish"

OnlyPublishesAreLate(w) == \A r \in requests : r # w => r.op = "publish"
Pristine(w, o) ==
  /\ wqOk = "ok" /\ slots = NotedAt(wqStep)
  /\ \/ OnlyPublishesAreLate(w) /\ (Ready(w, o) \/ Asked(w) \/ Told(w, o))
     \/ Raised(w, o)

\* Once a call has raised, the example only deletes what it remembers.
CleansUp(w, o) ==
  /\ wqOk = "raised" /\ wqStep >= FirstCleanUp
  /\ w # NoRequest => w.op = "delete"
  /\ o.is \in {"none", "done", "error"} /\ (o.is = "done" => o.cards = {})

ExampleIsAlone ==
  /\ \A c \in AnyCaller : waits[c] # NoRequest => c = ScriptCaller
  /\ \A r \in requests : r.call[1] = ScriptCaller

ScriptInv ==
  /\ wqStep = 0 => wqOk = "ok"
  /\ wqStep # 0 =>
       /\ wqStep \in 1 .. Len(WqScript) + 1 /\ ExampleIsAlone
       /\ \/ Pristine(waits[ScriptCaller], outcome[ScriptCaller])
          \/ CleansUp(waits[ScriptCaller], outcome[ScriptCaller])

LEMMA LinesAnswer ==
  ASSUME NEW n, NEW i \in 1..26, i # 25, i < 25 => n = i
  PROVE  Answers(i, n)
<1>1. CASE i < 25
  <2>1. \/ i \in {1, 6, 9, 10, 18} \/ i \in {2, 3, 19, 20} \/ i = 4
        \/ i \in {5, 7, 8, 11, 12, 13, 16, 24}
        \/ i \in {14, 15, 21, 23, 26} \/ i \in {17, 22}
    BY <1>1
  <2> QED
    BY <1>1, <2>1, CreatesAnswer, LossesAnswer, GetAnswers, LookupsAnswer,
       DeletesAnswer, OthersAnswer
<1>2. CASE i = 26
  BY <1>2, DeletesAnswer
<1> QED BY <1>1, <1>2

\* The lines, what comes before them and what they leave remembered.
LEMMA LineIs ==
  /\ \A i \in 1..26 : WqScript[i].op = "publish" <=> i = 22
  /\ \A i \in 25..26 : /\ WqScript[i].op = "delete" /\ WqScript[i].is = "done"
                       /\ WqScript[i].names = {}
                       /\ WqScript[i].slot = IF i = 25 THEN "A" ELSE "B"
  /\ \A i \in 1..26 : WqScript[i].is \in {"won", "lost", "found", "done"}
<1>1. \A i \in 1..26 : \/ i = 1 \/ i = 2 \/ i = 3 \/ i = 4 \/ i = 5
                       \/ i = 6 \/ i = 7 \/ i = 8 \/ i = 9 \/ i = 10
                       \/ i = 11 \/ i = 12 \/ i = 13 \/ i = 14 \/ i = 15
                       \/ i = 16 \/ i = 17 \/ i = 18 \/ i = 19 \/ i = 20
                       \/ i = 21 \/ i = 22 \/ i = 23 \/ i = 24 \/ i = 25
                        \/ i = 26
  OBVIOUS
<1>2. \A i \in 1..26 : WqScript[i].op = "publish" <=> i = 22
  BY <1>1, ScriptIs DEF Do
<1>3. \A i \in 1..26 : WqScript[i].is \in {"won", "lost", "found", "done"}
  BY <1>1, ScriptIs DEF Do
<1>4. \A i \in 25..26 : /\ WqScript[i].op = "delete"
                        /\ WqScript[i].is = "done"
                        /\ WqScript[i].names = {}
                        /\ WqScript[i].slot = IF i = 25 THEN "A" ELSE "B"
  BY ScriptIs DEF Do
<1> QED BY <1>2, <1>3, <1>4

\* A request of the example that is not the one it waits for.
LEMMA LateServed ==
  ASSUME WqInv, ScriptInv, wqStep # 0, NEW r \in requests, Serve(r),
         r # waits[ScriptCaller]
  PROVE  ScriptInv'
<1>1. /\ ScriptCaller \in AnyCaller /\ r.call[1] = ScriptCaller
      /\ requests' = requests \ {r} /\ UNCHANGED <<calls, example>>
  BY DEF ScriptInv, ExampleIsAlone, Serve, AnyCaller
<1>2. UNCHANGED <<waits, outcome>>
  BY <1>1 DEF Serve, CreateItem, AddRef, ItemCommand, DeleteItem,
     GetItem, GetItemsByRef, NotFound, Conflict, Answer
<1>3. r.op = "publish" => UNCHANGED cards
  BY DEF Serve, CreateItem, AddRef, ItemCommand, DeleteItem,
     GetItem, GetItemsByRef, NotFound
<1>4. ExampleIsAlone'
  BY <1>1, <1>2 DEF ScriptInv, ExampleIsAlone
<1>5. \A w : OnlyPublishesAreLate(w) => OnlyPublishesAreLate(w)'
  BY <1>1 DEF OnlyPublishesAreLate
<1>6. UNCHANGED <<wqStep, wqOk, slots>>
  BY <1>1 DEF example
<1> DEFINE w == waits[ScriptCaller]
           o == outcome[ScriptCaller]
<1>7. w' = w /\ o' = o
  BY <1>2
<1>8. CASE CleansUp(w, o)
  <2>1. CleansUp(w', o')
    BY <1>7, <1>8
  <2>2. CleansUp(w, o)'
    BY <1>6, <1>7, <1>8 DEF CleansUp
  <2> QED BY <1>4, <1>6, <2>2 DEF ScriptInv
<1>9. CASE Pristine(w, o)
  <2>1. CASE OnlyPublishesAreLate(w)
    <3>1. UNCHANGED cards
      BY <1>3, <2>1 DEF OnlyPublishesAreLate
    <3>2. Pristine(w, o)'
      BY <1>1, <1>5, <1>6, <1>7, <1>9, <2>1, <3>1
      DEF Pristine, Ready, Asked, Told, Raised, Begun, Line,
          OnlyPublishesAreLate
    <3> QED BY <1>4, <1>6, <3>2 DEF ScriptInv
  <2>2. CASE Raised(w, o)
    <3>1. Pristine(w, o)'
      BY <1>1, <1>6, <1>7, <1>9, <2>2 DEF Pristine, Raised, Begun, Line
    <3> QED BY <1>4, <1>6, <3>1 DEF ScriptInv
  <2> QED BY <1>9, <2>1, <2>2 DEF Pristine
<1> QED BY <1>8, <1>9 DEF ScriptInv

\* The request that the example waits for.
LEMMA OwnServed ==
  ASSUME WqInv, ScriptInv, wqStep # 0, NEW r \in requests, Serve(r),
         r = waits[ScriptCaller]
  PROVE  ScriptInv'
<1> DEFINE w == waits[ScriptCaller]
           o == outcome[ScriptCaller]
<1>1. /\ ScriptCaller \in AnyCaller /\ r.call[1] = ScriptCaller
      /\ requests' = requests \ {r} /\ UNCHANGED <<calls, example>>
      /\ r # NoRequest
  BY DEF ScriptInv, ExampleIsAlone, Serve, AnyCaller, WqInv, WqType
<1>2. UNCHANGED <<wqStep, wqOk, slots>>
  BY <1>1 DEF example
<1>3. o.is = "none"
  BY <1>1 DEF WqInv, WaitsForItsLast
<1>4. ASSUME NEW a, Answer(r, a)
      PROVE  w' = NoRequest /\ o' = a /\ ExampleIsAlone'
  <2>1. /\ waits' = [waits EXCEPT ![ScriptCaller] = NoRequest]
        /\ outcome' = [outcome EXCEPT ![ScriptCaller] = a]
    BY <1>1, <1>4 DEF Answer
  <2>2. w' = NoRequest /\ o' = a
    BY <1>1, <2>1 DEF WqInv, WqType
  <2>3. ExampleIsAlone'
    BY <1>1, <2>1 DEF WqInv, WqType, ScriptInv, ExampleIsAlone
  <2> QED BY <2>2, <2>3
<1>5. CASE CleansUp(w, o)
  <2>1. \E a : /\ Answer(r, a) /\ a.is \in {"done", "error"}
               /\ a.is = "done" => a.cards = {}
    <3>1. r.op = "delete"
      BY <1>1, <1>5 DEF CleansUp
    <3>2. DeleteItem(r) \/ NotFound(r)
      BY <3>1 DEF Serve, CreateItem, AddRef, ItemCommand, GetItem,
                  GetItemsByRef
    <3>3. \/ Answer(r, [is |-> "done", cards |-> {}])
          \/ Answer(r, [is |-> "error", cards |-> {}])
      BY <3>2 DEF DeleteItem, NotFound
    <3> QED BY <3>3
  <2>2. CleansUp(w, o)' /\ ExampleIsAlone'
    BY <1>2, <1>4, <1>5, <2>1 DEF CleansUp
  <2> QED BY <1>2, <2>2 DEF ScriptInv
<1>6. CASE Pristine(w, o)
  <2>1. OnlyPublishesAreLate(w) /\ Asked(w)
    BY <1>1, <1>6 DEF Pristine, Ready, Told, Raised
  <2>2. /\ wqStep \in 1..26 /\ wqStep # 25
        /\ wqStep < 25 => calls[ScriptCaller] = wqStep
        /\ r = RequestOf(wqStep, calls[ScriptCaller]) /\ cards = Held(wqStep)
    BY <2>1, ScriptIs DEF Asked, Begun
  <2>3. Answers(wqStep, calls[ScriptCaller])
    BY <2>2, LinesAnswer
  <2>4. /\ cards' = Held(wqStep + 1)
        /\ IF Line.op = "publish"
           THEN \E is \in {"done", "error"} :
                  Answer(r, [is |-> is, cards |-> {}])
           ELSE Answer(r, Asserted(wqStep))
    BY <2>2, <2>3 DEF Answers, Line
  <2>5. OnlyPublishesAreLate(w)' /\ Told(w, o)' /\ ExampleIsAlone'
    <3>1. ASSUME NEW a, Answer(r, a),
                 IF Line.op = "publish" THEN a.is \in {"done", "error"}
                                        ELSE a = Asserted(wqStep)
          PROVE  OnlyPublishesAreLate(w)' /\ Told(w, o)' /\ ExampleIsAlone'
      <4>1. w' = NoRequest /\ o' = a /\ ExampleIsAlone'
        BY <1>4, <3>1
      <4>2. OnlyPublishesAreLate(w)'
        BY <1>1, <2>1 DEF OnlyPublishesAreLate
      <4>3. Told(w, o)'
        BY <1>1, <1>2, <2>1, <2>4, <3>1, <4>1 DEF Told, Asked, Begun, Line
      <4> QED BY <4>1, <4>2, <4>3
    <3>2. CASE Line.op = "publish"
      <4>1. PICK is \in {"done", "error"} :
              Answer(r, [is |-> is, cards |-> {}])
        BY <2>4, <3>2
      <4> QED BY <3>1, <3>2, <4>1
    <3>3. CASE Line.op # "publish"
      BY <2>4, <3>1, <3>3
    <3> QED BY <3>2, <3>3
  <2>6. Pristine(w, o)'
    BY <1>2, <1>6, <2>5 DEF Pristine
  <2> QED BY <1>2, <2>5, <2>6 DEF ScriptInv
<1> QED BY <1>5, <1>6 DEF ScriptInv

LEMMA ScriptCallFails ==
  ASSUME WqInv, ScriptInv, wqStep # 0, NEW c \in AnyCaller, CallFails(c)
  PROVE  ScriptInv'
<1> DEFINE w == waits[ScriptCaller]
           o == outcome[ScriptCaller]
<1>1. c = ScriptCaller /\ w # NoRequest
  BY DEF CallFails, ScriptInv, ExampleIsAlone
<1>2. /\ waits' = [waits EXCEPT ![c] = NoRequest]
      /\ outcome' = [outcome EXCEPT ![c] = [is |-> "error", cards |-> {}]]
      /\ UNCHANGED <<cards, requests, calls, wqStep, wqOk, slots>>
  BY DEF CallFails, example
<1>3. w' = NoRequest /\ o' = [is |-> "error", cards |-> {}]
  BY <1>1, <1>2 DEF WqInv, WqType
<1>4. ExampleIsAlone'
  BY <1>1, <1>2 DEF WqInv, WqType, ScriptInv, ExampleIsAlone
<1>5. CASE CleansUp(w, o)
  <2>1. CleansUp(w, o)'
    BY <1>2, <1>3, <1>5 DEF CleansUp
  <2> QED BY <1>2, <1>4, <2>1 DEF ScriptInv
<1>6. CASE Pristine(w, o)
  <2>1. OnlyPublishesAreLate(w) /\ Asked(w)
    BY <1>1, <1>6 DEF Pristine, Ready, Told, Raised
  <2>2. CASE Line.op = "publish"
    <3>1. wqStep = 22
      BY <2>1, <2>2, LineIs, ScriptIs DEF Asked, Begun, Line
    <3>2. Held(23) = Held(22)
      <4>1. \A t \in HeldNames(22) : CardAt(t, 23) = CardAt(t, 22)
        BY CardsStay DEF HeldNames
      <4> QED BY <4>1, NamesAre DEF Held
    <3>3. w.op = "publish"
      BY <2>1, <2>2 DEF Asked, RequestOf, Line
    <3>4. OnlyPublishesAreLate(w)'
      BY <1>2, <1>3, <2>1, <3>3 DEF OnlyPublishesAreLate
    <3>5. Told(w, o)'
      BY <1>2, <1>3, <2>1, <2>2, <3>1, <3>2 DEF Told, Asked, Begun, Line
    <3>6. Pristine(w, o)'
      BY <1>2, <1>6, <3>4, <3>5 DEF Pristine
    <3> QED BY <1>2, <1>4, <3>6 DEF ScriptInv
  <2>3. CASE Line.op # "publish"
    <3>1. Raised(w, o)'
      BY <1>2, <1>3, <2>1, <2>3 DEF Raised, Asked, Begun, Line
    <3>2. Pristine(w, o)'
      BY <1>2, <1>6, <3>1 DEF Pristine
    <3> QED BY <1>2, <1>4, <3>2 DEF ScriptInv
  <2> QED BY <2>2, <2>3
<1> QED BY <1>5, <1>6 DEF ScriptInv

LEMMA ScriptCallsNext ==
  ASSUME WqInv, ScriptInv, ScriptCalls
  PROVE  ScriptInv'
<1> DEFINE w == waits[ScriptCaller]
           o == outcome[ScriptCaller]
           card == IF Line.slot \in Slot /\ Line.op # "create"
                   THEN slots[Line.slot] ELSE {}
           q == [call |-> <<ScriptCaller, calls[ScriptCaller] + 1>>,
                 op |-> Line.op, queue |-> Line.queue, card |-> card,
                 refs |-> Line.refs]
<1>1. /\ wqStep \in 1..26 /\ wqStep # 0 /\ o.is = "none" /\ w = NoRequest
      /\ wqStep >= FirstCleanUp => card # {}
      /\ waits' = [waits EXCEPT ![ScriptCaller] = q]
      /\ requests' = requests \cup {q}
      /\ calls' = [calls EXCEPT ![ScriptCaller] = @ + 1]
      /\ outcome' = [outcome EXCEPT ![ScriptCaller] =
                       [is |-> "none", cards |-> {}]]
      /\ UNCHANGED <<cards, wqStep, wqOk, slots>>
  BY ScriptIs DEF ScriptCalls, Send, example
<1>2. /\ q.call = <<ScriptCaller, calls[ScriptCaller] + 1>>
      /\ q.op = Line.op
  OBVIOUS
<1>3. card = CardOfLine(wqStep) \/ slots # NotedAt(wqStep)
  BY DEF CardOfLine, Line
<1>4. q = RequestOf(wqStep, calls[ScriptCaller] + 1)
      \/ slots # NotedAt(wqStep)
  BY <1>3 DEF RequestOf, Line
<1>5. q # NoRequest
  <2>1. "call" \in DOMAIN q /\ "call" \notin DOMAIN NoRequest
    BY DEF NoRequest
  <2> HIDE DEF q
  <2> QED BY <2>1
<1> HIDE DEF q, card
<1>6. /\ ScriptCaller \in AnyCaller /\ calls[ScriptCaller] \in Nat
      /\ w' = q /\ o' = [is |-> "none", cards |-> {}]
      /\ calls'[ScriptCaller] = calls[ScriptCaller] + 1
  BY <1>1 DEF WqInv, WqType, AnyCaller
<1>7. ExampleIsAlone'
  BY <1>1, <1>2 DEF WqInv, WqType, ScriptInv, ExampleIsAlone
<1>8. CASE CleansUp(w, o)
  <2>1. wqStep \in 25..26
    BY <1>1, <1>8, ScriptIs DEF CleansUp
  <2>2. q.op = "delete"
    BY <1>2, <2>1, LineIs DEF Line
  <2>3. CleansUp(w, o)'
    BY <1>1, <1>6, <1>8, <2>2 DEF CleansUp
  <2> QED BY <1>1, <1>7, <2>3 DEF ScriptInv
<1>9. CASE Pristine(w, o)
  <2>1. OnlyPublishesAreLate(w) /\ Ready(w, o) /\ slots = NotedAt(wqStep)
    <3>1. ~Asked(w)
      BY <1>1 DEF Asked, RequestOf, NoRequest
    <3>2. ~Told(w, o)
      <4>1. Asserted(wqStep).is # "none"
        BY <1>1, LineIs DEF Asserted
      <4> QED BY <1>1, <4>1 DEF Told
    <3> QED BY <1>1, <1>9, <3>1, <3>2 DEF Pristine, Raised
  <2>2. wqStep # FirstCleanUp
    <3>1. wqStep = 25 => card = {}
      BY <2>1, <1>3, ScriptIs, LineIs DEF CardOfLine, NotedAt, Slot
    <3> QED BY <1>1, <3>1, ScriptIs
  <2>3. OnlyPublishesAreLate(w)'
    BY <1>1, <1>6, <2>1 DEF OnlyPublishesAreLate, WqInv, WqType
  <2>4. Asked(w)'
    BY <1>1, <1>4, <1>6, <2>1, <2>2, ScriptIs DEF Asked, Begun, Ready
  <2>5. Pristine(w, o)'
    BY <1>1, <1>9, <2>3, <2>4 DEF Pristine
  <2> QED BY <1>1, <1>7, <2>5 DEF ScriptInv
<1> QED BY <1>1, <1>8, <1>9 DEF ScriptInv

\* What the example remembers once line i was answered with o; and if the
\* answer is the one that the line asserts, the assertion holds.
NotedAfter(remembered, i, o) ==
  IF /\ WqScript[i].op = "create" /\ WqScript[i].slot \in Slot
     /\ o.is = "won"
  THEN [remembered EXCEPT ![WqScript[i].slot] = o.cards] ELSE remembered
Passed(i, noted) == IF i = 24 THEN [noted EXCEPT !["A"] = {}] ELSE noted

LEMMA LineNotes ==
  ASSUME NEW i \in 1..26, i # 25, NEW remembered, remembered = NotedAt(i),
         NEW o, o = Asserted(i)
  PROVE  LET noted == NotedAfter(remembered, i, o)
         IN  /\ o.is = WqScript[i].is
             /\ \A k : k \in o.cards <=>
                  \E s \in WqScript[i].names : k \in noted[s]
             /\ NotedAt(i + 1) = Passed(i, noted)
<1> DEFINE noted == NotedAfter(remembered, i, o)
           made(s) == {<<ScriptCaller, MadeAt(s)>>}
<1>1. /\ o.is = WqScript[i].is
      /\ o.cards = UNION {made(s) : s \in WqScript[i].names}
  BY DEF Asserted
<1>2. \/ /\ i \in {1, 6, 9, 10, 18}
         /\ WqScript[i].op = "create" /\ WqScript[i].slot \in Slot
         /\ WqScript[i].is = "won" /\ MadeAt(WqScript[i].slot) = i
         /\ WqScript[i].names = {WqScript[i].slot}
      \/ /\ i \notin {1, 6, 9, 10, 18}
         /\ WqScript[i].op # "create" \/ WqScript[i].slot \notin Slot
         /\ \A s \in WqScript[i].names :
              s \in Slot /\ MadeAt(s) < i /\ (s = "A" => i < 25)
  <2>1. CASE i \in {1, 6, 9, 10, 18}
    <3>1. i = 1 \/ i = 6 \/ i = 9 \/ i = 10 \/ i = 18
      BY <2>1
    <3> QED BY <2>1, <3>1, ScriptIs, TablesAre DEF Do, Slot
  <2>2. CASE i \in {2, 3, 4, 19, 20}
    BY <2>2, ScriptIs, TablesAre DEF Do, Slot
  <2>3. CASE i \in {5, 7, 8, 11, 12, 13, 16, 24}
    <3>1. \/ i = 5 \/ i = 7 \/ i = 8 \/ i = 11 \/ i = 12 \/ i = 13
          \/ i = 16 \/ i = 24
      BY <2>3
    <3> QED BY <2>3, <3>1, ScriptIs, TablesAre DEF Do, Slot
  <2>4. CASE i \in {14, 15, 17, 21, 22, 23, 26}
    <3>1. \/ i = 14 \/ i = 15 \/ i = 17 \/ i = 21 \/ i = 22 \/ i = 23
          \/ i = 26
      BY <2>4
    <3> QED BY <2>4, <3>1, ScriptIs, TablesAre DEF Do, Slot
  <2> QED BY <2>1, <2>2, <2>3, <2>4
<1>3. \A s \in Slot :
        NotedAt(i)[s] = IF MadeAt(s) < i /\ (s = "A" => i < 25)
                        THEN made(s) ELSE {}
  BY ScriptIs DEF NotedAt
<1>4. \A s \in Slot : MadeAt(s) \in Nat
  BY MadeApart
<1>5. /\ NotedAt(i) = [s \in Slot |-> NotedAt(i)[s]]
      /\ NotedAt(i + 1) = [s \in Slot |-> NotedAt(i + 1)[s]]
  BY DEF NotedAt
<1>6. noted = [s \in Slot |-> IF MadeAt(s) < i + 1 /\ (s = "A" => i < 25)
                              THEN made(s) ELSE {}]
  <2>1. CASE i \in {1, 6, 9, 10, 18}
    <3> DEFINE n == WqScript[i].slot
    <3>1. noted = [NotedAt(i) EXCEPT ![n] = made(n)]
      BY <1>1, <1>2, <2>1 DEF NotedAfter
    <3>2. \A s \in Slot : MadeAt(s) = i => s = n
      BY <1>2, <2>1, MadeApart
    <3>3. n \in Slot /\ MadeAt(n) = i /\ i < 25
      BY <1>2, <2>1
    <3> HIDE DEF n, noted, made
    <3>4. noted = [s \in Slot |-> IF s = n THEN made(n) ELSE NotedAt(i)[s]]
      BY <1>5, <3>1
    <3>5. \A s \in Slot :
            (IF s = n THEN made(n) ELSE NotedAt(i)[s])
              = IF MadeAt(s) < i + 1 /\ (s = "A" => i < 25)
                THEN made(s) ELSE {}
      <4> SUFFICES ASSUME NEW s \in Slot
                   PROVE  (IF s = n THEN made(n) ELSE NotedAt(i)[s])
                            = IF MadeAt(s) < i + 1 /\ (s = "A" => i < 25)
                              THEN made(s) ELSE {}
        OBVIOUS
      <4>1. CASE s = n
        BY <3>3, <4>1
      <4>2. CASE s # n
        BY <1>3, <1>4, <3>2, <3>3, <4>2
      <4> QED BY <4>1, <4>2
    <3> QED BY <3>4, <3>5
  <2>2. CASE i \notin {1, 6, 9, 10, 18}
    <3>1. \A s \in Slot : MadeAt(s) # i
      BY <2>2, TablesAre DEF Slot
    <3>2. noted = NotedAt(i)
      BY <1>2, <2>2 DEF NotedAfter
    <3> HIDE DEF noted, made
    <3> QED BY <1>3, <1>4, <1>5, <3>1, <3>2
  <2> QED BY <2>1, <2>2
<1>7. \A k : k \in o.cards <=> \E s \in WqScript[i].names : k \in noted[s]
  <2>1. \A s \in WqScript[i].names : noted[s] = made(s)
    <3>1. \A s \in WqScript[i].names :
            s \in Slot /\ MadeAt(s) < i + 1 /\ (s = "A" => i < 25)
      BY <1>2, <1>4
    <3> HIDE DEF noted, made
    <3> QED BY <1>6, <3>1
  <2> HIDE DEF noted
  <2> QED BY <1>1, <2>1
<1>8. NotedAt(i + 1) = Passed(i, noted)
  <2>1. \A s \in Slot :
          NotedAt(i + 1)[s] = IF MadeAt(s) < i + 1 /\ (s = "A" => i + 1 < 25)
                              THEN made(s) ELSE {}
    BY ScriptIs DEF NotedAt
  <2>2. "A" \in Slot
    BY DEF Slot
  <2> HIDE DEF noted, made
  <2>3. CASE i = 24
    BY <1>5, <1>6, <2>1, <2>2, <2>3 DEF Passed
  <2>4. CASE i # 24
    <3>1. i + 1 < 25 <=> i < 25
      BY <2>4
    <3> QED BY <1>5, <1>6, <2>1, <2>4, <3>1 DEF Passed
  <2> QED BY <2>3, <2>4
<1> QED BY <1>1, <1>7, <1>8

LEMMA ScriptChecksNext ==
  ASSUME WqInv, ScriptInv, ScriptChecks
  PROVE  ScriptInv'
<1> DEFINE w == waits[ScriptCaller]
           o == outcome[ScriptCaller]
           noted == NotedAfter(slots, wqStep, o)
           holds == /\ o.is = Line.is
                    /\ o.cards = UNION {noted[s] : s \in Line.names}
<1>1. /\ wqStep \in 1..26 /\ wqStep # 0 /\ o.is # "none"
      /\ outcome' = [outcome EXCEPT ![ScriptCaller].is = "none"]
      /\ slots' = IF wqStep = 24 /\ holds
                  THEN [noted EXCEPT !["A"] = {}] ELSE noted
      /\ IF holds \/ Line.op = "publish"
         THEN wqStep' = wqStep + 1 /\ UNCHANGED wqOk
         ELSE /\ wqOk' = IF o.is = "error" THEN "raised" ELSE "asserted"
              /\ wqStep' = IF wqStep < 25 THEN 25 ELSE 27
      /\ UNCHANGED <<cards, requests, waits, calls>>
  BY ScriptIs DEF ScriptChecks, NotedAfter, Line
<1>2. /\ ScriptCaller \in AnyCaller /\ w = NoRequest /\ w' = NoRequest
      /\ o'.is = "none" /\ ExampleIsAlone'
  BY <1>1 DEF WqInv, WqType, Outcome, WaitsForItsLast, AnyCaller,
     ScriptInv, ExampleIsAlone
<1>3. ASSUME wqStep' \in 1..27, Pristine(w, o)' \/ CleansUp(w, o)'
      PROVE  ScriptInv'
  BY <1>2, <1>3, ScriptIs DEF ScriptInv
<1>4. CASE CleansUp(w, o)
  <2>1. /\ wqStep \in 25..26 /\ o.is \in {"done", "error"}
        /\ wqOk = "raised" /\ (o.is = "done" => o.cards = {})
    BY <1>1, <1>4, ScriptIs DEF CleansUp
  <2>2. o.is = "done" => holds
    <3>1. Line.is = "done" /\ Line.names = {}
      BY <2>1, LineIs DEF Line
    <3>2. UNION {noted[s] : s \in {}} = {}
      OBVIOUS
    <3> HIDE DEF noted
    <3> QED BY <2>1, <3>1, <3>2
  <2> HIDE DEF holds
  <2>3. wqOk' = "raised" /\ wqStep' \in 25..27
    <3>1. CASE holds \/ Line.op = "publish"
      <4>1. wqStep' = wqStep + 1 /\ wqOk' = wqOk
        BY <1>1, <3>1
      <4> QED BY <2>1, <4>1
    <3>2. CASE ~(holds \/ Line.op = "publish")
      BY <1>1, <2>1, <2>2, <3>2
    <3> QED BY <3>1, <3>2
  <2>4. CleansUp(w, o)'
    BY <1>2, <2>3, ScriptIs DEF CleansUp
  <2> QED BY <1>3, <2>3, <2>4
<1>5. CASE Pristine(w, o) /\ Raised(w, o)
  <2>1. /\ o.is = "error" /\ Line.op # "publish" /\ wqOk = "ok"
        /\ Line.is # "error"
    BY <1>1, <1>5, LineIs DEF Pristine, Raised, Line
  <2>2. ~holds
    BY <2>1
  <2> HIDE DEF holds
  <2>3. wqOk' = "raised" /\ wqStep' \in 25..27
    BY <1>1, <2>1, <2>2
  <2>4. CleansUp(w, o)'
    BY <1>2, <2>3, ScriptIs DEF CleansUp
  <2> QED BY <1>3, <2>3, <2>4
<1>6. CASE Pristine(w, o) /\ ~Raised(w, o)
  <2>1. /\ OnlyPublishesAreLate(w) /\ Told(w, o) /\ wqOk = "ok"
        /\ slots = NotedAt(wqStep) /\ wqStep # 25
    <3>1. ~Asked(w)
      BY <1>2 DEF Asked, RequestOf, NoRequest
    <3> QED BY <1>1, <1>6, <3>1, ScriptIs DEF Pristine, Ready, Told, Begun
  <2>2. /\ wqStep' = wqStep + 1 /\ wqOk' = "ok"
        /\ slots' = NotedAt(wqStep + 1)
    <3>1. CASE Line.op = "publish"
      <4>1. wqStep = 22 /\ Line.op # "create"
        BY <1>1, <3>1, LineIs DEF Line
      <4>2. noted = slots
        BY <4>1 DEF NotedAfter, Line
      <4>3. NotedAt(23) = NotedAt(22)
        BY <4>1, LineNotes DEF NotedAfter, Passed, Line
      <4> HIDE DEF noted, holds
      <4> QED BY <1>1, <2>1, <3>1, <4>1, <4>2, <4>3
    <3>2. CASE Line.op # "publish"
      <4>1. o = Asserted(wqStep)
        BY <2>1, <3>2 DEF Told
      <4>2. /\ holds
            /\ NotedAt(wqStep + 1) = Passed(wqStep, noted)
        <5> HIDE DEF o
        <5>1. /\ wqStep \in 1..26 /\ wqStep # 25
              /\ slots = NotedAt(wqStep) /\ o = Asserted(wqStep)
          BY <1>1, <2>1, <4>1
        <5>2. /\ o.is = Line.is
              /\ \A k : k \in o.cards <=>
                   \E s \in Line.names : k \in noted[s]
              /\ NotedAt(wqStep + 1) = Passed(wqStep, noted)
          BY <5>1, LineNotes DEF Line
        <5> HIDE DEF noted
        <5>3. o.cards = UNION {noted[s] : s \in Line.names}
          BY <5>2
        <5> QED BY <5>2, <5>3
      <4> HIDE DEF noted, holds
      <4> QED BY <1>1, <2>1, <4>2 DEF Passed
    <3> QED BY <3>1, <3>2
  <2> HIDE DEF noted, holds
  <2>3. OnlyPublishesAreLate(w)'
    BY <1>1, <2>1 DEF OnlyPublishesAreLate
  <2>4. Ready(w, o)'
    BY <1>1, <1>2, <2>1, <2>2, ScriptIs DEF Ready, Told, Begun
  <2>5. Pristine(w, o)'
    BY <2>2, <2>3, <2>4 DEF Pristine
  <2> QED BY <1>1, <1>3, <2>2, <2>5
<1> QED BY <1>1, <1>4, <1>5, <1>6 DEF ScriptInv

LEMMA ScriptSkipsNext ==
  ASSUME WqInv, ScriptInv, ScriptSkips
  PROVE  ScriptInv'
<1> DEFINE w == waits[ScriptCaller]
           o == outcome[ScriptCaller]
<1>1. /\ wqStep \in 25..26 /\ slots[Line.slot] = {} /\ wqStep' = wqStep + 1
      /\ UNCHANGED <<cards, requests, waits, calls, outcome, wqOk, slots>>
  BY ScriptIs DEF ScriptSkips
<1>2. w' = w /\ o' = o /\ ExampleIsAlone'
  BY <1>1 DEF ScriptInv, ExampleIsAlone
<1>3. CASE CleansUp(w, o)
  <2>1. CleansUp(w, o)'
    BY <1>1, <1>2, <1>3, ScriptIs DEF CleansUp
  <2> QED BY <1>1, <1>2, <2>1, ScriptIs DEF ScriptInv
<1>4. CASE Pristine(w, o)
  <2>1. wqStep = 25
    <3>1. NotedAt(26)["B"] # {}
      <4>1. NotedAt(26)["B"] = {<<ScriptCaller, MadeAt("B")>>}
        BY TablesAre DEF NotedAt, Slot
      <4> QED BY <4>1
    <3>2. wqStep = 26 => Line.slot = "B"
      BY LineIs DEF Line
    <3> QED BY <1>1, <1>4, <3>1, <3>2 DEF Pristine
  <2>2. OnlyPublishesAreLate(w) /\ Ready(w, o) /\ slots = NotedAt(25)
    BY <1>4, <2>1, ScriptIs DEF Pristine, Asked, Told, Raised, Begun
  <2>3. Held(26) = Held(25)
    <3>1. \A t \in HeldNames(25) : CardAt(t, 26) = CardAt(t, 25)
      BY CardsStay DEF HeldNames
    <3> QED BY <3>1, NamesAre DEF Held
  <2>4. NotedAt(26) = NotedAt(25)
    BY ScriptIs, MadeApart DEF NotedAt
  <2>5. OnlyPublishesAreLate(w)' /\ Ready(w, o)'
    BY <1>1, <1>2, <2>1, <2>2, <2>3, ScriptIs DEF OnlyPublishesAreLate, Ready
  <2>6. Pristine(w, o)'
    BY <1>1, <1>4, <2>1, <2>2, <2>4, <2>5 DEF Pristine
  <2> QED BY <1>1, <1>2, <2>6, ScriptIs DEF ScriptInv
<1> QED BY <1>1, <1>3, <1>4 DEF ScriptInv

LEMMA ScriptInit == WqInit => ScriptInv
<1> SUFFICES ASSUME WqInit PROVE ScriptInv
  OBVIOUS
<1> DEFINE w == waits[ScriptCaller]
           o == outcome[ScriptCaller]
<1>1. /\ w = NoRequest /\ o.is = "none" /\ calls[ScriptCaller] = 0
      /\ ScriptCaller \in AnyCaller /\ ExampleIsAlone
      /\ wqStep \in {0, 1} /\ wqOk = "ok"
  BY DEF WqInit, AnyCaller, ExampleIsAlone
<1>2. slots = NotedAt(1)
  BY MadeApart DEF WqInit, NotedAt
<1>3. cards = Held(1)
  BY NamesAre DEF WqInit, Held
<1>4. wqStep = 1 => Pristine(w, o)
  BY <1>1, <1>2, <1>3, ScriptIs
  DEF Pristine, Ready, OnlyPublishesAreLate, WqInit
<1> QED BY <1>1, <1>4, ScriptIs DEF ScriptInv

LEMMA ScriptNext == WqInv /\ ScriptInv /\ [WqNext]_wqVars => ScriptInv'
<1> SUFFICES ASSUME WqInv, ScriptInv, [WqNext]_wqVars PROVE ScriptInv'
  OBVIOUS
<1>1. CASE wqStep = 0
  <2>1. UNCHANGED <<wqStep, wqOk>>
    <3>1. ~ScriptCalls /\ ~ScriptChecks /\ ~ScriptSkips
      BY <1>1, ScriptIs DEF ScriptCalls, ScriptChecks, ScriptSkips
    <3> QED BY <3>1 DEF WqNext, FreeCall, Send, Serve, CallFails, example,
               wqVars
  <2> QED BY <1>1, <2>1 DEF ScriptInv
<1>2. CASE wqStep # 0
  <2>1. ASSUME NEW r \in requests, Serve(r) PROVE ScriptInv'
    BY <1>2, <2>1, LateServed, OwnServed
  <2>2. ASSUME NEW c \in AnyCaller, CallFails(c) PROVE ScriptInv'
    BY <1>2, <2>2, ScriptCallFails
  <2>3. CASE UNCHANGED wqVars
    BY <2>3 DEF wqVars, ScriptInv, ExampleIsAlone, Pristine, CleansUp,
       OnlyPublishesAreLate, Ready, Asked, Told, Raised, Begun, Line
  <2>4. ~\E c \in QueueCaller : FreeCall(c)
    BY <1>2 DEF FreeCall
  <2> QED BY <2>1, <2>2, <2>3, <2>4, ScriptCallsNext, ScriptChecksNext,
             ScriptSkipsNext DEF WqNext
<1> QED BY <1>1, <1>2

\* Inductive: line by line, the cards on the server and the cards that the
\* example remembers, until a call other than the publication raises.
THEOREM ScriptInvariant == WqSpec => []ScriptInv
BY WqInvariant, ScriptInit, ScriptNext, PTL DEF WqSpec

\* Whatever raises, and whenever a request that raised is served after all:
\* the example's assertions hold unless a call raises, and when it reports that
\* all steps passed no card is left on the server.
THEOREM ExampleEndsClean == WqSpec => []ExampleLeavesNothing
<1>1. ScriptInv => ExampleLeavesNothing
  <2> SUFFICES ASSUME ScriptInv PROVE ExampleLeavesNothing
    OBVIOUS
  <2>1. wqOk # "asserted"
    BY DEF ScriptInv, Pristine, CleansUp
  <2>2. ASSUME wqStep = 27, wqOk = "ok" PROVE cards = {}
    <3>1. cards = Held(27)
      BY <2>2, ScriptIs DEF ScriptInv, Pristine, CleansUp, Ready, Asked,
         Told, Raised, Begun
    <3> QED BY <3>1, NamesAre DEF Held
  <2> QED BY <2>1, <2>2, ScriptIs DEF ExampleLeavesNothing
<1> QED BY ScriptInvariant, <1>1, PTL

-----------------------------------------------------------------------------
(***************************************************************************)
(* Annotation batches, for any publishers, plans, raises and changes of    *)
(* the workflow.  A publisher's batches are its own; of the others it only *)
(* sees the specifications, whose list grows.                              *)
(***************************************************************************)

SeedPlan == <<"seed", "push", "read", "push", "read", "probe">>
FirstPush == <<"push", "read", "push", "read", "probe">>
FirstRead == <<"read", "push", "read", "probe">>
LastPush == <<"push", "read", "probe">>
LastRead == <<"read", "probe">>
ProbePlan == <<"probe">>
OnePush == <<"push">>
PushPlans == {FirstPush, LastPush, OnePush}
ReadPlans == {FirstRead, LastRead}
\* The pushes behind a publisher, by what is left of its plan.
Done(plan) == IF plan \in {LastRead, ProbePlan} THEN 2
              ELSE IF plan \in {FirstRead, LastPush} THEN 1 ELSE 0

SeedLegs == {"getSpec", "createSpec", "confirmSpec", "listWorkflows"}
BatchLegs == {"bind", "upload", "readBack"}
Works(p) == pub[p].leg \notin {"teardown", "ended"}

BatchRecord ==
  [status: {"none", "DRAFT", "ACTIVE", "ARCHIVED"}, bound: BOOLEAN,
   jobs: BOOLEAN, checklist: BOOLEAN]
PublisherRecord ==
  [leg: {"next", "resolve", "read", "create", "teardown", "ended"}
          \cup SeedLegs \cup BatchLegs,
   plan: {SeedPlan, ProbePlan, << >>} \cup PushPlans \cup ReadPlans,
   batch: 0 .. 3, binds: BOOLEAN,
   created: SUBSET Batch, unarchived: SUBSET Batch,
   end: {"ok", "refused", "unbindable", "status", "asserted", "lost"},
   seeded: BOOLEAN]

AnnType ==
  /\ batches \in [Publisher \X Batch -> BatchRecord]
  /\ specs \in Seq(Publisher)
  /\ workflows \in {"old", "none", "published"}
  /\ pub \in [Publisher -> PublisherRecord]
  /\ raises \in Nat

\* Where a publisher is in its plan, and how many batches it has made.
PlanIsRight(p) ==
  LET r == pub[p]
  IN  /\ r.leg \in SeedLegs => r.plan = SeedPlan
      /\ r.leg = "resolve" => r.plan \in PushPlans
      /\ r.leg = "read" => r.plan \in ReadPlans
      /\ r.leg \in BatchLegs \cup {"create"} =>
           r.plan \in PushPlans \cup {ProbePlan}
      /\ r.leg \in SeedLegs \cup {"next", "resolve", "read", "create"} /\
         r.plan # << >> => r.batch = Done(r.plan)
      /\ r.leg \in BatchLegs => r.batch = Done(r.plan) + 1
      /\ r.end # "ok" => ~Works(p)
      /\ r.created \subseteq 1 .. r.batch
      /\ Works(p) /\ r.plan \notin {ProbePlan, << >>} =>
           r.created \subseteq 1 .. Done(r.plan)

\* Its batches: those pushed, the one it is at, those to come, and what it
\* remembers.
BatchesAreRight(p) ==
  LET r == pub[p]
  IN  /\ r.end # "lost" =>
           \A b \in Batch : b > r.batch => batches[Id(p, b)] = NoBatch
      /\ \A b \in Batch : batches[Id(p, b)].status = "ACTIVE" =>
           \/ b \in r.created \cup r.unarchived
           \/ b = r.batch /\ (r.leg = "readBack" \/ r.end = "lost")
      /\ Works(p) /\ r.plan # << >> => \A b \in 1 .. Done(r.plan) :
           batches[Id(p, b)].status = "ACTIVE" /\ batches[Id(p, b)].jobs
      /\ r.leg \in {"bind", "upload"} \/ (r.leg = "readBack" /\ ~Pushes(p)) =>
           Current(p).status = "DRAFT" /\ ~Current(p).jobs
      /\ r.leg = "readBack" /\ Pushes(p) =>
           Current(p).status = "ACTIVE" /\ Current(p).jobs
      /\ r.end = "unbindable" =>
           \A b \in Batch : batches[Id(p, b)].status # "DRAFT"
      /\ r.end = "status" =>
           /\ r.batch \in Batch /\ ~Current(p).jobs
           /\ Pushes(p) => /\ Current(p).status = "DRAFT"
                           /\ r.batch \notin r.created
      /\ r.leg = "ended" /\ r.end # "lost" => r.created = {}

\* What it knows of the specifications.
SpecsAreRight(p) ==
  LET r == pub[p]
  IN  /\ r.plan = SeedPlan => ~r.seeded
      /\ r.seeded \/ r.leg = "listWorkflows" => specs # << >>
      /\ r.leg = "confirmSpec" => \E i \in 1 .. Len(specs) : specs[i] = p
      /\ r.end = "asserted" => Len(specs) > 1
      /\ r.seeded => \A b \in Batch :
           batches[Id(p, b)].jobs => batches[Id(p, b)].checklist

Right(p) == PlanIsRight(p) /\ BatchesAreRight(p) /\ SpecsAreRight(p)
AnnInv == AnnType /\ \A p \in Publisher : Right(p)

\* The plans are no more than their few ends.
LEMMA PlansAre ==
  /\ Head(SeedPlan) = "seed" /\ Tail(SeedPlan) = FirstPush
  /\ Head(FirstPush) = "push" /\ Tail(FirstPush) = FirstRead
  /\ Head(FirstRead) = "read" /\ Tail(FirstRead) = LastPush
  /\ Head(LastPush) = "push" /\ Tail(LastPush) = LastRead
  /\ Head(LastRead) = "read" /\ Tail(LastRead) = ProbePlan
  /\ Head(ProbePlan) = "probe" /\ Tail(ProbePlan) = << >>
  /\ Head(OnePush) = "push" /\ Tail(OnePush) = << >>
BY DEF SeedPlan, FirstPush, FirstRead, LastPush, LastRead, ProbePlan, OnePush

LEMMA PlansDiffer ==
  /\ SeedPlan \notin PushPlans \cup ReadPlans \cup {ProbePlan, << >>}
  /\ ProbePlan \notin PushPlans \cup ReadPlans \cup {<< >>}
  /\ << >> \notin PushPlans \cup ReadPlans
  /\ PushPlans \cap ReadPlans = {}
  /\ FirstPush \notin {LastPush, OnePush} /\ LastPush # OnePush
  /\ FirstRead # LastRead
<1>1. /\ Len(SeedPlan) = 6 /\ Len(FirstPush) = 5 /\ Len(FirstRead) = 4
      /\ Len(LastPush) = 3 /\ Len(LastRead) = 2 /\ Len(ProbePlan) = 1
      /\ Len(OnePush) = 1 /\ Len(<< >>) = 0
      /\ ProbePlan[1] # OnePush[1]
  BY DEF SeedPlan, FirstPush, FirstRead, LastPush, LastRead, ProbePlan,
         OnePush
<1>2. /\ SeedPlan # FirstPush /\ SeedPlan # LastPush /\ SeedPlan # OnePush
      /\ SeedPlan # FirstRead /\ SeedPlan # LastRead
      /\ SeedPlan # ProbePlan /\ SeedPlan # << >>
  <2>1. SeedPlan # FirstPush /\ SeedPlan # LastPush
    BY <1>1
  <2>2. SeedPlan # OnePush /\ SeedPlan # FirstRead
    BY <1>1
  <2>3. SeedPlan # LastRead /\ SeedPlan # ProbePlan /\ SeedPlan # << >>
    BY <1>1
  <2> QED BY <2>1, <2>2, <2>3
<1>3. /\ ProbePlan # FirstPush /\ ProbePlan # LastPush /\ ProbePlan # OnePush
      /\ ProbePlan # FirstRead /\ ProbePlan # LastRead /\ ProbePlan # << >>
  <2>1. ProbePlan # OnePush
    BY <1>1
  <2>2. ProbePlan # FirstPush /\ ProbePlan # LastPush
    BY <1>1
  <2>3. ProbePlan # FirstRead /\ ProbePlan # LastRead /\ ProbePlan # << >>
    BY <1>1
  <2> QED BY <2>1, <2>2, <2>3
<1>4. /\ << >> # FirstPush /\ << >> # LastPush /\ << >> # OnePush
      /\ << >> # FirstRead /\ << >> # LastRead
  BY <1>1
<1>5. /\ FirstPush # FirstRead /\ FirstPush # LastRead
      /\ LastPush # FirstRead /\ LastPush # LastRead
      /\ OnePush # FirstRead /\ OnePush # LastRead
      /\ FirstPush # LastPush /\ FirstPush # OnePush /\ LastPush # OnePush
      /\ FirstRead # LastRead
  BY <1>1
<1> QED BY <1>2, <1>3, <1>4, <1>5 DEF PushPlans, ReadPlans

LEMMA DoneIs ==
  /\ \A plan : Done(plan) \in 0 .. 2 /\ 1 .. Done(plan) \subseteq Batch
  /\ Done(SeedPlan) = 0 /\ Done(FirstPush) = 0 /\ Done(OnePush) = 0
  /\ Done(FirstRead) = 1 /\ Done(LastPush) = 1
  /\ Done(LastRead) = 2 /\ Done(ProbePlan) = 2
<1>1. /\ Done(SeedPlan) = 0 /\ Done(FirstPush) = 0 /\ Done(OnePush) = 0
      /\ Done(FirstRead) = 1 /\ Done(LastPush) = 1
      /\ Done(LastRead) = 2 /\ Done(ProbePlan) = 2
  BY PlansDiffer DEF Done, PushPlans, ReadPlans
<1>2. \A plan : Done(plan) \in 0 .. 2
  BY DEF Done
<1> QED BY <1>1, <1>2 DEF Batch

LEMMA AnnInitInv == AnnInit => AnnInv
<1> SUFFICES ASSUME AnnInit PROVE AnnInv
  OBVIOUS
<1>1. PICK plan \in [Publisher -> Plans] :
        pub = [p \in Publisher |->
                [leg |-> "next", plan |-> plan[p], batch |-> 0, binds |-> TRUE,
                 created |-> {}, unarchived |-> {}, end |-> "ok",
                 seeded |-> FALSE]]
  BY DEF AnnInit
<1>2. \A p \in Publisher : plan[p] \in {OnePush, SeedPlan}
  BY DEF Plans, SeedPlan, OnePush
<1>3. \A p \in Publisher :
        /\ plan[p] \in {SeedPlan, ProbePlan, << >>} \cup PushPlans
                          \cup ReadPlans
        /\ Done(plan[p]) = 0
  BY <1>2, DoneIs DEF PushPlans
<1>4. AnnType
  BY <1>1, <1>3 DEF AnnInit, AnnType, NoBatch, BatchRecord, PublisherRecord
<1>5. ASSUME NEW p \in Publisher PROVE Right(p)
  <2>1. pub[p] = [leg |-> "next", plan |-> plan[p], batch |-> 0,
                  binds |-> TRUE, created |-> {}, unarchived |-> {},
                  end |-> "ok", seeded |-> FALSE]
    BY <1>1
  <2>2. \A b \in Batch : batches[Id(p, b)] = NoBatch
    BY DEF AnnInit, Id
  <2> QED
    BY <1>3, <2>1, <2>2, DoneIs DEF Right, PlanIsRight, BatchesAreRight,
       NoBatch, SpecsAreRight, SeedLegs, BatchLegs, Works
<1> QED BY <1>4, <1>5 DEF AnnInv

\* What the others do leaves a publisher as it is.
LEMMA OthersStay ==
  ASSUME AnnInv, AnnType', NEW p \in Publisher, pub'[p] = pub[p],
         \A b \in Batch : batches'[Id(p, b)] = batches[Id(p, b)],
         specs' = specs \/ \E q \in Publisher : specs' = Append(specs, q)
  PROVE  Right(p)'
<1>1. Right(p) /\ specs \in Seq(Publisher) /\ pub[p] \in PublisherRecord
  BY DEF AnnInv, AnnType
<1>2. /\ Len(specs') >= Len(specs) /\ specs' \in Seq(Publisher)
      /\ \A i \in 1 .. Len(specs) : specs'[i] = specs[i]
      /\ specs # << >> => specs' # << >>
  BY <1>1
<1>3. SpecsAreRight(p)'
  BY <1>1, <1>2 DEF Right, SpecsAreRight
<1>4. Pushes(p)' = Pushes(p) /\ Works(p)' = Works(p) /\ PlanIsRight(p)'
  BY <1>1 DEF Pushes, Right, PlanIsRight, Works
<1>5. BatchesAreRight(p)'
  <2>1. pub[p].batch \in Batch => Current(p)' = Current(p)
    BY DEF Current
  <2>2. pub[p].leg \in BatchLegs => pub[p].batch \in Batch
    BY <1>1, DoneIs DEF Right, PlanIsRight, Batch
  <2>3. pub[p].end = "status" => pub[p].batch \in Batch
    BY <1>1 DEF Right, BatchesAreRight
  <2>4. \A b \in 1 .. Done(pub[p].plan) : b \in Batch
    BY DoneIs
  <2> QED
    BY <1>1, <1>4, <2>1, <2>2, <2>3, <2>4
    DEF Right, BatchesAreRight, BatchLegs
<1> QED BY <1>3, <1>4, <1>5 DEF Right

\* A step of p writes its own batches, and may add a specification.
Writes(p) ==
  /\ \A q \in Publisher \ {p}, b \in Batch :
       batches'[Id(q, b)] = batches[Id(q, b)]
  /\ specs' = specs \/ \E q \in Publisher : specs' = Append(specs, q)

LEMMA StepKeeps ==
  ASSUME AnnInv, NEW p \in Publisher, Writes(p), AnnType',
         \A q \in Publisher \ {p} : pub'[q] = pub[q], Right(p)'
  PROVE  AnnInv'
<1>1. ASSUME NEW q \in Publisher, q # p PROVE Right(q)'
  BY <1>1, OthersStay DEF Writes
<1> QED BY <1>1 DEF AnnInv

\* A step of p that only moves it.
LEMMA MoveKeeps ==
  ASSUME AnnInv, NEW p \in Publisher, UNCHANGED annServer,
         NEW r \in PublisherRecord, Set(p, r), raises' \in Nat, Right(p)'
  PROVE  AnnInv'
<1>1. AnnType'
  BY DEF AnnInv, AnnType, annServer, Set
<1>2. Writes(p) /\ \A q \in Publisher \ {p} : pub'[q] = pub[q]
  BY DEF AnnInv, AnnType, annServer, Set, Writes
<1> QED BY <1>1, <1>2, StepKeeps

\* p, where it is.
LEMMA PublisherIs ==
  ASSUME AnnInv, NEW p \in Publisher
  PROVE  /\ pub[p] \in PublisherRecord
         /\ PlanIsRight(p) /\ BatchesAreRight(p) /\ SpecsAreRight(p)
         /\ \A b \in Batch : batches[Id(p, b)] \in BatchRecord
         /\ specs \in Seq(Publisher) /\ raises \in Nat
BY DEF AnnInv, AnnType, Right, Id

\* A call that raised with its effect: nothing is known of the last batch.
LEMMA LostKeeps ==
  ASSUME AnnInv, NEW p \in Publisher, Writes(p), Ends(p, "lost"),
         raises' = raises + 1, UNCHANGED workflows,
         specs' \in Seq(Publisher),
         batches' \in [Publisher \X Batch -> BatchRecord],
         Works(p),
         \A b \in Batch : pub[p].seeded /\ batches'[Id(p, b)].jobs =>
                            batches'[Id(p, b)].checklist,
         \A b \in Batch : b # pub[p].batch
           /\ batches'[Id(p, b)].status = "ACTIVE" =>
           batches[Id(p, b)].status = "ACTIVE"
  PROVE  AnnInv'
<1> DEFINE r == [pub[p] EXCEPT !.leg = "teardown", !.end = "lost"]
<1>1. r \in PublisherRecord /\ r.leg = "teardown" /\ r.end = "lost"
      /\ r.plan = pub[p].plan /\ r.batch = pub[p].batch
      /\ r.created = pub[p].created /\ r.seeded = pub[p].seeded
      /\ r.unarchived = pub[p].unarchived
  BY PublisherIs DEF PublisherRecord
<1> HIDE DEF r
<1>2. pub' = [pub EXCEPT ![p] = r]
  BY DEF Ends, Set, r
<1>3. AnnType'
  BY <1>1, <1>2 DEF AnnInv, AnnType
<1>4. pub'[p] = r /\ \A q \in Publisher \ {p} : pub'[q] = pub[q]
  BY <1>2 DEF AnnInv, AnnType
<1>5. PlanIsRight(p)'
  BY <1>1, <1>4, PublisherIs DEF PlanIsRight, SeedLegs, BatchLegs, Works
<1>6. BatchesAreRight(p)'
  <2>1. \A b \in Batch : batches'[Id(p, b)].status = "ACTIVE" =>
          b \in r.created \cup r.unarchived \/ b = r.batch
    BY <1>1, PublisherIs DEF BatchesAreRight
  <2> QED
    BY <1>1, <1>4, <2>1 DEF BatchesAreRight, SeedLegs, BatchLegs, Works
<1>7. SpecsAreRight(p)'
  <2>1. specs # << >> => specs' # << >>
    BY PublisherIs DEF Writes
  <2> QED BY <1>1, <1>4, <2>1, PublisherIs DEF SpecsAreRight
<1> QED BY <1>3, <1>4, <1>5, <1>6, <1>7, StepKeeps DEF Right

LEMMA CallRaisesKeeps ==
  ASSUME AnnInv, NEW p \in Publisher, CallRaises(p)
  PROVE  AnnInv'
<1>1. Writes(p) /\ Ends(p, "lost") /\ raises' = raises + 1
      /\ UNCHANGED <<batches, specs, workflows>> /\ Works(p)
  BY DEF CallRaises, Writes, annServer, Works
<1>2. \A b \in Batch : pub[p].seeded /\ batches'[Id(p, b)].jobs =>
                         batches'[Id(p, b)].checklist
  BY <1>1, PublisherIs DEF SpecsAreRight
<1> QED BY <1>1, <1>2, LostKeeps DEF AnnInv, AnnType

LEMMA NextItemKeeps ==
  ASSUME AnnInv, NEW p \in Publisher, NextItem(p)
  PROVE  AnnInv'
<1> DEFINE leg == IF pub[p].plan = << >> THEN "teardown"
                  ELSE CASE Head(pub[p].plan) = "seed" -> "getSpec"
                         [] Head(pub[p].plan) = "push" -> "resolve"
                         [] Head(pub[p].plan) = "read" -> "read"
                         [] OTHER -> "create"
           r == [pub[p] EXCEPT !.leg = leg]
<1>1. /\ Set(p, r) /\ pub[p].leg = "next"
      /\ UNCHANGED annServer /\ raises' = raises
  BY DEF NextItem, GoTo, At
<1>2. \/ pub[p].plan = << >> /\ leg = "teardown"
      \/ pub[p].plan = SeedPlan /\ leg = "getSpec"
      \/ pub[p].plan \in PushPlans /\ leg = "resolve"
      \/ pub[p].plan \in ReadPlans /\ leg = "read"
      \/ pub[p].plan = ProbePlan /\ leg = "create"
  <2>1. ASSUME pub[p].plan # << >>
        PROVE  \/ pub[p].plan = SeedPlan /\ Head(pub[p].plan) = "seed"
               \/ pub[p].plan \in PushPlans /\ Head(pub[p].plan) = "push"
               \/ pub[p].plan \in ReadPlans /\ Head(pub[p].plan) = "read"
               \/ pub[p].plan = ProbePlan /\ Head(pub[p].plan) = "probe"
    BY <2>1, PublisherIs, PlansAre DEF PublisherRecord, PushPlans, ReadPlans
  <2> QED BY <2>1
<1> HIDE DEF leg
<1>3. r \in PublisherRecord /\ r.leg = leg /\ r.plan = pub[p].plan
      /\ r.batch = pub[p].batch /\ r.created = pub[p].created
      /\ r.end = pub[p].end /\ r.seeded = pub[p].seeded
      /\ r.unarchived = pub[p].unarchived
  BY <1>2, PublisherIs DEF PublisherRecord, SeedLegs, BatchLegs
<1> HIDE DEF r
<1>4. pub'[p] = r /\ UNCHANGED <<batches, specs>>
  BY <1>1 DEF Set, AnnInv, AnnType, annServer
<1>5. pub[p].end = "ok"
  BY <1>1, PublisherIs DEF PublisherRecord, PlanIsRight, Works
<1>6. PlanIsRight(p)'
  BY <1>1, <1>2, <1>3, <1>4, <1>5, PublisherIs, PlansDiffer
  DEF PlanIsRight, SeedLegs, BatchLegs, Works
<1>7. BatchesAreRight(p)'
  BY <1>1, <1>2, <1>3, <1>4, <1>5, PublisherIs
  DEF BatchesAreRight, BatchLegs, Works
<1>8. SpecsAreRight(p)'
  BY <1>1, <1>2, <1>3, <1>4, <1>5, PublisherIs DEF SpecsAreRight
<1> QED BY <1>1, <1>3, <1>6, <1>7, <1>8, MoveKeeps, PublisherIs DEF Right

\* Before the first batch.
LEMMA UnusedIs ==
  ASSUME AnnInv, NEW p \in Publisher, pub[p].leg \in SeedLegs
  PROVE  /\ pub[p].plan = SeedPlan /\ pub[p].batch = 0
         /\ pub[p].created = {} /\ pub[p].end = "ok" /\ ~pub[p].seeded
         /\ \A b \in Batch : batches[Id(p, b)] = NoBatch
<1>1. Works(p) /\ pub[p].plan = SeedPlan /\ pub[p].plan # << >>
  BY PublisherIs, PlansDiffer DEF PlanIsRight, Works, SeedLegs
<1>2. pub[p].batch = 0 /\ pub[p].end = "ok" /\ pub[p].created \subseteq 1 .. 0
  BY <1>1, PublisherIs, DoneIs DEF PlanIsRight, PublisherRecord
<1>3. \A b \in Batch : batches[Id(p, b)] = NoBatch
  BY <1>2, PublisherIs DEF BatchesAreRight, Batch
<1> QED BY <1>1, <1>2, <1>3, PublisherIs DEF SpecsAreRight

\* A move between two legs before the first batch.
LEMMA SeedMoveKeeps ==
  ASSUME AnnInv, NEW p \in Publisher, UNCHANGED <<annServer, raises>>,
         pub[p].leg \in SeedLegs,
         NEW r \in PublisherRecord, Set(p, r),
         r.batch = pub[p].batch /\ r.created = pub[p].created,
         \/ /\ r.leg \in SeedLegs
            /\ r.plan = pub[p].plan /\ r.end = "ok"
         \/ /\ r.leg = "next"
            /\ r.plan = FirstPush /\ r.end = "ok"
         \/ r.leg = "teardown" /\ r.end \in {"refused", "asserted"},
         r.leg = "listWorkflows" \/ r.leg = "next" => specs # << >>,
         r.seeded => r.leg = "next",
         r.leg = "confirmSpec" => \E i \in 1 .. Len(specs) : specs[i] = p,
         r.end = "asserted" => Len(specs) > 1
  PROVE  AnnInv'
<1>1. pub'[p] = r /\ UNCHANGED <<batches, specs>>
  BY DEF Set, AnnInv, AnnType, annServer
<1>2. /\ pub[p].plan = SeedPlan /\ pub[p].batch = 0 /\ pub[p].created = {}
      /\ pub[p].end = "ok"
      /\ \A b \in Batch : batches[Id(p, b)] = NoBatch
  BY UnusedIs
<1>3. Done(r.plan) = 0 \/ r.leg = "teardown"
  BY <1>2, DoneIs DEF SeedLegs
<1>4. PlanIsRight(p)'
  BY <1>1, <1>2, <1>3, PlansDiffer
  DEF PlanIsRight, SeedLegs, BatchLegs, PushPlans, Works
<1>5. BatchesAreRight(p)'
  BY <1>1, <1>2, <1>3 DEF BatchesAreRight, NoBatch, SeedLegs, BatchLegs, Works
<1>6. SpecsAreRight(p)'
  BY <1>1, <1>2, PlansDiffer DEF SpecsAreRight, NoBatch, SeedLegs, PushPlans
<1> QED BY <1>4, <1>5, <1>6, MoveKeeps, PublisherIs DEF Right

LEMMA SeedStepsKeep ==
  ASSUME AnnInv, NEW p \in Publisher,
         GetSpec(p) \/ ConfirmSpec(p) \/ ListWorkflows(p)
  PROVE  AnnInv'
<1>1. ASSUME GetSpec(p) PROVE AnnInv'
  <2> DEFINE leg == IF specs = << >> THEN "createSpec" ELSE "listWorkflows"
             r == [pub[p] EXCEPT !.leg = leg]
  <2>1. Set(p, r) /\ UNCHANGED <<annServer, raises>> /\ pub[p].leg = "getSpec"
    BY <1>1 DEF GetSpec, GoTo, At
  <2>2. /\ r \in PublisherRecord /\ r.leg = leg /\ r.plan = pub[p].plan
        /\ r.batch = pub[p].batch /\ r.created = pub[p].created
        /\ r.end = "ok" /\ ~r.seeded
    BY <2>1, PublisherIs, UnusedIs DEF PublisherRecord, SeedLegs
  <2> HIDE DEF r
  <2> QED BY <2>1, <2>2, SeedMoveKeeps DEF SeedLegs
<1>2. ASSUME ConfirmSpec(p) PROVE AnnInv'
  <2>1. pub[p].leg = "confirmSpec" /\ UNCHANGED <<annServer, raises>>
    BY <1>2 DEF ConfirmSpec, At
  <2>2. PICK i \in 1 .. Len(specs) : specs[i] = p
    BY <2>1, PublisherIs DEF SpecsAreRight
  <2>3. pub[p].end = "ok" /\ ~pub[p].seeded /\ specs \in Seq(Publisher)
        /\ specs # << >>
    BY <2>1, <2>2, PublisherIs, UnusedIs DEF SeedLegs
  <2>4. CASE specs[1] = p
    <3> DEFINE r == [pub[p] EXCEPT !.leg = "listWorkflows"]
    <3>1. Set(p, r)
      BY <1>2, <2>4 DEF ConfirmSpec, GoTo
    <3>2. /\ r \in PublisherRecord /\ r.leg = "listWorkflows"
          /\ r.plan = pub[p].plan
          /\ r.batch = pub[p].batch /\ r.created = pub[p].created
          /\ r.end = "ok" /\ ~r.seeded
      BY <2>3, PublisherIs DEF PublisherRecord, SeedLegs
    <3> HIDE DEF r
    <3> QED BY <2>1, <2>3, <3>1, <3>2, SeedMoveKeeps DEF SeedLegs
  <2>5. CASE specs[1] # p
    <3> DEFINE r == [pub[p] EXCEPT !.leg = "teardown", !.end = "asserted"]
    <3>1. Set(p, r)
      BY <1>2, <2>5 DEF ConfirmSpec, Ends
    <3>2. /\ r \in PublisherRecord /\ r.leg = "teardown"
          /\ r.batch = pub[p].batch /\ r.created = pub[p].created
          /\ r.end = "asserted" /\ ~r.seeded
      BY <2>3, PublisherIs DEF PublisherRecord
    <3>3. Len(specs) > 1
      BY <2>2, <2>3, <2>5
    <3> HIDE DEF r
    <3> QED BY <2>1, <2>3, <3>1, <3>2, <3>3, SeedMoveKeeps DEF SeedLegs
  <2> QED BY <2>4, <2>5
<1>3. ASSUME ListWorkflows(p) PROVE AnnInv'
  <2>1. pub[p].leg = "listWorkflows" /\ UNCHANGED <<annServer, raises>>
    BY <1>3 DEF ListWorkflows, At
  <2>2. pub[p].plan = SeedPlan /\ pub[p].end = "ok" /\ specs # << >>
    BY <2>1, PublisherIs, UnusedIs DEF SpecsAreRight, SeedLegs
  <2>3. CASE workflows = "published"
    <3> DEFINE r == [pub[p] EXCEPT !.leg = "next", !.plan = Tail(@),
                                   !.seeded = TRUE]
    <3>1. Set(p, r)
      BY <1>3, <2>3 DEF ListWorkflows
    <3>2. /\ r \in PublisherRecord /\ r.leg = "next"
          /\ r.plan = FirstPush
          /\ r.batch = pub[p].batch /\ r.created = pub[p].created
          /\ r.end = "ok"
      <4>1. pub[p].plan = SeedPlan /\ pub[p].end = "ok"
            /\ pub[p] \in PublisherRecord
        BY <2>2, PublisherIs
      <4>2. FirstPush \in PushPlans
        BY DEF PushPlans
      <4> QED BY <4>1, <4>2, PlansAre DEF PublisherRecord
    <3> HIDE DEF r
    <3> QED BY <2>1, <2>2, <3>1, <3>2, SeedMoveKeeps DEF SeedLegs
  <2>4. CASE workflows # "published"
    <3> DEFINE r == [pub[p] EXCEPT !.leg = "teardown", !.end = "refused"]
    <3>1. Set(p, r)
      BY <1>3, <2>4 DEF ListWorkflows, Ends
    <3>2. /\ r \in PublisherRecord /\ r.leg = "teardown"
          /\ r.batch = pub[p].batch /\ r.created = pub[p].created
          /\ r.end = "refused" /\ r.seeded = pub[p].seeded
      BY PublisherIs DEF PublisherRecord
    <3>3. ~pub[p].seeded
      BY <2>2, PublisherIs DEF SpecsAreRight
    <3> HIDE DEF r
    <3> QED BY <2>1, <3>1, <3>2, <3>3, SeedMoveKeeps DEF SeedLegs
  <2> QED BY <2>3, <2>4
<1> QED BY <1>1, <1>2, <1>3

LEMMA CreateSpecKeeps ==
  ASSUME AnnInv, NEW p \in Publisher, CreateSpec(p)
  PROVE  AnnInv'
<1>1. /\ pub[p].leg = "createSpec" /\ specs' = Append(specs, p)
      /\ UNCHANGED <<batches, workflows>>
      /\ Answered(p, GoTo(p, "confirmSpec"))
  BY DEF CreateSpec, At
<1>2. /\ Writes(p) /\ specs' \in Seq(Publisher)
      /\ Len(specs') = Len(specs) + 1 /\ specs'[Len(specs) + 1] = p
      /\ Len(specs) \in Nat
  BY <1>1, PublisherIs DEF Writes
<1>3. /\ pub[p].plan = SeedPlan /\ pub[p].batch = 0 /\ pub[p].created = {}
      /\ pub[p].end = "ok" /\ ~pub[p].seeded
      /\ \A b \in Batch : batches[Id(p, b)] = NoBatch
      /\ Done(SeedPlan) = 0
  BY <1>1, UnusedIs, DoneIs DEF SeedLegs
<1>4. CASE GoTo(p, "confirmSpec") /\ UNCHANGED raises
  <2> DEFINE r == [pub[p] EXCEPT !.leg = "confirmSpec"]
  <2>1. /\ r \in PublisherRecord /\ r.leg = "confirmSpec"
        /\ r.plan = SeedPlan /\ r.batch = 0 /\ r.created = {}
        /\ r.end = "ok" /\ ~r.seeded
    BY <1>3, PublisherIs DEF PublisherRecord, SeedLegs
  <2>2. pub' = [pub EXCEPT ![p] = r]
    BY <1>4 DEF GoTo, Set
  <2> HIDE DEF r
  <2>3. AnnType' /\ pub'[p] = r /\ \A q \in Publisher \ {p} : pub'[q] = pub[q]
    BY <1>1, <1>2, <1>4, <2>1, <2>2 DEF AnnInv, AnnType
  <2>4. PlanIsRight(p)'
    BY <1>3, <2>1, <2>3, PlansDiffer
    DEF PlanIsRight, SeedLegs, BatchLegs, Works
  <2>5. BatchesAreRight(p)'
    BY <1>1, <1>3, <2>1, <2>3 DEF BatchesAreRight, NoBatch, BatchLegs, Works
  <2>6. SpecsAreRight(p)'
    <3>1. Len(specs) + 1 \in 1 .. Len(specs')
      BY <1>2
    <3> QED BY <1>2, <2>1, <2>3, <3>1 DEF SpecsAreRight
  <2> QED BY <1>2, <2>3, <2>4, <2>5, <2>6, StepKeeps DEF Right
<1>5. CASE raises' = raises + 1 /\ Ends(p, "lost")
  BY <1>1, <1>2, <1>3, <1>5, LostKeeps DEF AnnInv, AnnType, Works
<1> QED BY <1>1, <1>4, <1>5 DEF Answered

LEMMA ResolveKeeps ==
  ASSUME AnnInv, NEW p \in Publisher, ResolveWorkflow(p)
  PROVE  AnnInv'
<1>1. pub[p].leg = "resolve" /\ UNCHANGED <<annServer, raises>>
  BY DEF ResolveWorkflow, At
<1>2. /\ pub[p].plan \in PushPlans /\ pub[p].plan # << >>
      /\ pub[p].plan # ProbePlan
      /\ pub[p].batch = Done(pub[p].plan) /\ pub[p].end = "ok" /\ Works(p)
      /\ pub[p].created \subseteq 1 .. Done(pub[p].plan)
  BY <1>1, PublisherIs, PlansDiffer DEF PlanIsRight, PublisherRecord, Works
<1>3. \A b \in Batch : batches[Id(p, b)].status # "DRAFT"
  <2>1. ASSUME NEW b \in Batch
        PROVE  b > pub[p].batch \/ b \in 1 .. Done(pub[p].plan)
    BY <1>2, DoneIs DEF Batch
  <2> QED BY <1>2, <2>1, PublisherIs DEF BatchesAreRight, NoBatch
<1>4. ASSUME NEW r \in PublisherRecord, Set(p, r), r.plan = pub[p].plan,
             r.batch = pub[p].batch, r.created = pub[p].created,
             r.unarchived = pub[p].unarchived, r.seeded = pub[p].seeded,
             \/ r.leg = "create" /\ r.end = "ok"
             \/ r.leg = "teardown" /\ r.end = "unbindable"
      PROVE  AnnInv'
  <2>1. pub'[p] = r /\ UNCHANGED <<batches, specs>>
    BY <1>1, <1>4 DEF Set, AnnInv, AnnType, annServer
  <2>2. PlanIsRight(p)'
    BY <1>1, <1>2, <1>4, <2>1, PublisherIs, PlansDiffer
    DEF PlanIsRight, SeedLegs, BatchLegs, Works
  <2>3. BatchesAreRight(p)'
    BY <1>1, <1>2, <1>3, <1>4, <2>1, PublisherIs
    DEF BatchesAreRight, BatchLegs, Works
  <2>4. SpecsAreRight(p)'
    BY <1>1, <1>2, <1>4, <2>1, PublisherIs DEF SpecsAreRight
  <2> QED BY <1>1, <1>4, <2>2, <2>3, <2>4, MoveKeeps, PublisherIs DEF Right
<1>5. CASE workflows = "none"
  <2> DEFINE r == [pub[p] EXCEPT !.leg = "teardown", !.end = "unbindable"]
  <2>1. Set(p, r)
    BY <1>5 DEF ResolveWorkflow, Ends
  <2>2. /\ r \in PublisherRecord /\ r.plan = pub[p].plan
        /\ r.batch = pub[p].batch /\ r.created = pub[p].created
        /\ r.unarchived = pub[p].unarchived /\ r.seeded = pub[p].seeded
        /\ r.leg = "teardown" /\ r.end = "unbindable"
    BY PublisherIs DEF PublisherRecord
  <2> HIDE DEF r
  <2> QED BY <1>4, <2>1, <2>2
<1>6. CASE workflows # "none"
  <2> DEFINE r == [pub[p] EXCEPT !.leg = "create",
                                 !.binds = workflows = "published"]
  <2>1. Set(p, r)
    BY <1>6 DEF ResolveWorkflow
  <2>2. /\ r \in PublisherRecord /\ r.plan = pub[p].plan
        /\ r.batch = pub[p].batch /\ r.created = pub[p].created
        /\ r.unarchived = pub[p].unarchived /\ r.seeded = pub[p].seeded
        /\ r.leg = "create" /\ r.end = "ok"
    BY <1>2, PublisherIs DEF PublisherRecord
  <2> HIDE DEF r
  <2> QED BY <1>4, <2>1, <2>2
<1> QED BY <1>5, <1>6

\* Where p is when it has a batch of its own.
LEMMA AtItsBatch ==
  ASSUME AnnInv, NEW p \in Publisher, pub[p].leg \in BatchLegs
  PROVE  /\ pub[p].batch \in Batch /\ pub[p].end = "ok"
         /\ Works(p) /\ pub[p].plan # << >>
         /\ pub[p].batch = Done(pub[p].plan) + 1
         /\ Pushes(p) <=> pub[p].plan # ProbePlan
         /\ Pushes(p) => pub[p].batch \notin pub[p].created
         /\ Id(p, pub[p].batch) \in Publisher \X Batch
         /\ Current(p) \in BatchRecord
         /\ \A q \in Publisher, b \in Batch :
              Id(q, b) = Id(p, pub[p].batch) <=> q = p /\ b = pub[p].batch
<1>1. pub[p].batch \in Batch /\ pub[p].end = "ok"
      /\ Works(p) /\ pub[p].batch = Done(pub[p].plan) + 1
      /\ pub[p].plan \in PushPlans \cup {ProbePlan}
  BY PublisherIs, DoneIs
  DEF PlanIsRight, BatchLegs, Batch, PublisherRecord, Works
<1>2. Current(p) \in BatchRecord
  BY <1>1, PublisherIs DEF Current
<1>3. pub[p].plan # << >> /\ (Pushes(p) <=> pub[p].plan # ProbePlan)
  BY <1>1, PlansAre, PlansDiffer DEF Pushes, PushPlans
<1>4. Pushes(p) => pub[p].batch \notin pub[p].created
  BY <1>1, <1>3, PublisherIs, DoneIs DEF PlanIsRight
<1> QED BY <1>1, <1>2, <1>3, <1>4 DEF Id

\* p writes its current batch and goes on to another leg of the batch.
LEMMA WriteBatchKeeps ==
  ASSUME AnnInv, NEW p \in Publisher, pub[p].leg \in BatchLegs,
         NEW b \in BatchRecord, SetBatch(p, b),
         UNCHANGED <<specs, workflows, raises>>,
         NEW leg \in {"upload", "readBack"}, GoTo(p, leg),
         IF leg = "readBack" /\ Pushes(p) THEN b.status = "ACTIVE" /\ b.jobs
         ELSE b.status = "DRAFT" /\ ~b.jobs,
         pub[p].seeded /\ b.jobs => b.checklist
  PROVE  AnnInv'
<1> DEFINE r == [pub[p] EXCEPT !.leg = leg]
           n == pub[p].batch
<1>1. /\ r \in PublisherRecord /\ r.leg = leg
      /\ r.plan = pub[p].plan /\ r.batch = n /\ r.created = pub[p].created
      /\ r.end = "ok" /\ r.seeded = pub[p].seeded /\ r.end = pub[p].end
      /\ r.unarchived = pub[p].unarchived
  BY PublisherIs, AtItsBatch DEF PublisherRecord, BatchLegs
<1>2. pub' = [pub EXCEPT ![p] = r]
  BY DEF GoTo, Set
<1> HIDE DEF r
<1>3. pub'[p] = r /\ \A q \in Publisher \ {p} : pub'[q] = pub[q]
  BY <1>2 DEF AnnInv, AnnType
<1>4. /\ batches' \in [Publisher \X Batch -> BatchRecord]
      /\ batches'[Id(p, n)] = b
      /\ \A q \in Publisher, m \in Batch : q # p \/ m # n =>
           batches'[Id(q, m)] = batches[Id(q, m)]
  <2>1. batches \in [Publisher \X Batch -> BatchRecord]
    BY DEF AnnInv, AnnType
  <2>2. \A q \in Publisher, m \in Batch : Id(q, m) \in Publisher \X Batch
    BY DEF Id
  <2> DEFINE i == Id(p, n)
  <2>3. batches' = [batches EXCEPT ![i] = b] /\ i \in Publisher \X Batch
    BY AtItsBatch DEF SetBatch
  <2>4. \A q \in Publisher, m \in Batch : q # p \/ m # n => Id(q, m) # i
    BY AtItsBatch
  <2> HIDE DEF i
  <2>5. \A q \in Publisher, m \in Batch : q # p \/ m # n =>
          batches'[Id(q, m)] = batches[Id(q, m)]
    BY <2>1, <2>2, <2>3, <2>4
  <2>6. batches' \in [Publisher \X Batch -> BatchRecord] /\ batches'[i] = b
    BY <2>1, <2>3
  <2> QED BY <2>5, <2>6 DEF i
<1>5. AnnType'
  BY <1>1, <1>2, <1>4 DEF AnnInv, AnnType
<1>6. Writes(p) /\ n \in Batch
  BY <1>4, AtItsBatch DEF Writes
<1>7. PlanIsRight(p)'
  BY <1>1, <1>3, PublisherIs DEF PlanIsRight, SeedLegs, BatchLegs, Works
<1>8. Current(p)' = b /\ Pushes(p)' = Pushes(p)
  BY <1>1, <1>3, <1>4 DEF Current, Pushes
<1>9. BatchesAreRight(p)'
  <2>1. BatchesAreRight(p) /\ pub[p].end # "lost"
    BY <1>1, PublisherIs
  <2>2. ASSUME NEW m \in Batch
        PROVE  /\ m > n => batches'[Id(p, m)] = NoBatch
               /\ batches'[Id(p, m)].status = "ACTIVE" =>
                    \/ m \in r.created \cup r.unarchived
                    \/ leg = "readBack" /\ m = n
    <3>1. CASE m = n
      BY <1>4, <1>6, <3>1 DEF Batch
    <3>2. CASE m # n
      BY <1>1, <1>4, <2>1, <3>2 DEF BatchesAreRight
    <3> QED BY <3>1, <3>2
  <2>3. \A m \in 1 .. Done(r.plan) :
          batches'[Id(p, m)].status = "ACTIVE" /\ batches'[Id(p, m)].jobs
    <3>1. \A m \in 1 .. Done(r.plan) : m \in Batch /\ m # n
      BY <1>1, AtItsBatch, DoneIs
    <3> QED BY <1>1, <1>4, <2>1, <3>1, AtItsBatch DEF BatchesAreRight
  <2> QED
    BY <1>1, <1>3, <1>8, <2>2, <2>3 DEF BatchesAreRight
<1>10. SpecsAreRight(p)'
  <2>1. \A m \in Batch : pub[p].seeded /\ batches'[Id(p, m)].jobs =>
                           batches'[Id(p, m)].checklist
    BY <1>4, PublisherIs DEF SpecsAreRight
  <2> QED BY <1>1, <1>3, <2>1, PublisherIs DEF SpecsAreRight
<1> QED BY <1>3, <1>5, <1>6, <1>7, <1>9, <1>10, StepKeeps DEF Right

\* The write of a batch raises with its effect.
LEMMA LostWriteKeeps ==
  ASSUME AnnInv, NEW p \in Publisher, pub[p].leg \in BatchLegs,
         NEW b \in BatchRecord, SetBatch(p, b),
         UNCHANGED <<specs, workflows>>,
         raises' = raises + 1, Ends(p, "lost"),
         pub[p].seeded /\ b.jobs => b.checklist
  PROVE  AnnInv'
<1> DEFINE i == Id(p, pub[p].batch)
<1>1. /\ batches \in [Publisher \X Batch -> BatchRecord]
      /\ batches' = [batches EXCEPT ![i] = b] /\ i \in Publisher \X Batch
      /\ \A q \in Publisher, m \in Batch :
           Id(q, m) \in Publisher \X Batch
           /\ (Id(q, m) = i => q = p /\ m = pub[p].batch)
  BY AtItsBatch DEF SetBatch, AnnInv, AnnType, Id
<1> HIDE DEF i
<1>2. /\ batches' \in [Publisher \X Batch -> BatchRecord] /\ batches'[i] = b
      /\ \A j \in Publisher \X Batch : j # i => batches'[j] = batches[j]
  BY <1>1
<1>3. Writes(p)
  BY <1>1, <1>2 DEF Writes
<1>4. \A m \in Batch : pub[p].seeded /\ batches'[Id(p, m)].jobs =>
                         batches'[Id(p, m)].checklist
  BY <1>1, <1>2, PublisherIs DEF SpecsAreRight
<1>5. \A m \in Batch : m # pub[p].batch =>
        batches'[Id(p, m)] = batches[Id(p, m)]
  BY <1>1, <1>2
<1>6. Works(p) /\ specs \in Seq(Publisher)
  BY AtItsBatch, PublisherIs
<1> QED BY <1>2, <1>3, <1>4, <1>5, <1>6, LostKeeps

\* A status refuses the batch, which is still an empty draft.
LEMMA RefusedKeeps ==
  ASSUME AnnInv, NEW p \in Publisher, pub[p].leg \in {"bind", "upload"},
         Ends(p, "status"), UNCHANGED <<annServer, raises>>
  PROVE  AnnInv'
<1> DEFINE r == [pub[p] EXCEPT !.leg = "teardown", !.end = "status"]
<1>1. /\ r \in PublisherRecord /\ r.leg = "teardown" /\ r.end = "status"
      /\ r.plan = pub[p].plan /\ r.batch = pub[p].batch
      /\ r.created = pub[p].created /\ r.seeded = pub[p].seeded
      /\ r.unarchived = pub[p].unarchived
  BY PublisherIs DEF PublisherRecord
<1>2. Set(p, r)
  BY DEF Ends
<1> HIDE DEF r
<1>3. pub'[p] = r /\ UNCHANGED <<batches, specs>>
  BY <1>2 DEF Set, AnnInv, AnnType, annServer
<1>4. Current(p)' = Current(p) /\ Pushes(p)' = Pushes(p)
      /\ pub[p].batch \in Batch /\ pub[p].end = "ok"
      /\ pub[p].leg \in BatchLegs
      /\ (Pushes(p) => pub[p].batch \notin pub[p].created)
  BY <1>1, <1>3, AtItsBatch DEF Current, Pushes, BatchLegs
<1>5. PlanIsRight(p)'
  BY <1>1, <1>3, PublisherIs DEF PlanIsRight, SeedLegs, BatchLegs, Works
<1>6. BatchesAreRight(p)'
  BY <1>1, <1>3, <1>4, PublisherIs DEF BatchesAreRight, BatchLegs, Works
<1>7. SpecsAreRight(p)'
  BY <1>1, <1>3, PublisherIs DEF SpecsAreRight
<1> QED BY <1>1, <1>2, <1>5, <1>6, <1>7, MoveKeeps, PublisherIs DEF Right

LEMMA BindKeeps ==
  ASSUME AnnInv, NEW p \in Publisher, BindWorkflow(p)
  PROVE  AnnInv'
<1>1. pub[p].leg = "bind" /\ pub[p].leg \in BatchLegs
      /\ UNCHANGED <<specs, workflows>>
  BY DEF BindWorkflow, At, BatchLegs
<1>2. Current(p).status = "DRAFT" /\ ~Current(p).jobs /\ pub[p].end = "ok"
      /\ Current(p) \in BatchRecord /\ pub[p].batch \in Batch
  BY <1>1, PublisherIs, AtItsBatch DEF BatchesAreRight
<1>3. CASE workflows = "published"
  <2> DEFINE b == [Current(p) EXCEPT !.bound = TRUE]
  <2>1. SetBatch(p, b) /\ Answered(p, GoTo(p, "upload"))
    BY <1>3 DEF BindWorkflow
  <2>2. /\ b \in BatchRecord /\ b.status = "DRAFT" /\ ~b.jobs
        /\ b.jobs = Current(p).jobs /\ b.checklist = Current(p).checklist
    BY <1>2 DEF BatchRecord
  <2> HIDE DEF b
  <2>3. CASE GoTo(p, "upload") /\ UNCHANGED raises
    BY <1>1, <2>1, <2>2, <2>3, WriteBatchKeeps
  <2>4. CASE raises' = raises + 1 /\ Ends(p, "lost")
    BY <1>1, <2>1, <2>2, <2>4, LostWriteKeeps
  <2> QED BY <2>1, <2>3, <2>4 DEF Answered
<1>4. CASE workflows # "published"
  <2>1. Ends(p, "status") /\ UNCHANGED <<annServer, raises>>
    BY <1>1, <1>4 DEF BindWorkflow, annServer
  <2> QED BY <1>1, <1>2, <2>1, RefusedKeeps
<1> QED BY <1>3, <1>4

LEMMA UploadKeeps ==
  ASSUME AnnInv, NEW p \in Publisher, UploadGraph(p)
  PROVE  AnnInv'
<1>1. pub[p].leg = "upload" /\ pub[p].leg \in BatchLegs
      /\ UNCHANGED <<specs, workflows>>
  BY DEF UploadGraph, At, BatchLegs
<1>2. Current(p).status = "DRAFT" /\ ~Current(p).jobs /\ pub[p].end = "ok"
      /\ Current(p) \in BatchRecord /\ pub[p].batch \in Batch
  BY <1>1, PublisherIs, AtItsBatch DEF BatchesAreRight
<1>3. CASE MayUpload(p)
  <2> DEFINE b == [Current(p) EXCEPT !.status = "ACTIVE",
                            !.jobs = TRUE, !.checklist = specs # <<>>]
  <2>1. /\ SetBatch(p, b) /\ Answered(p, GoTo(p, "readBack")) /\ Pushes(p)
    BY <1>3 DEF UploadGraph, MayUpload
  <2>2. /\ b \in BatchRecord /\ b.status = "ACTIVE" /\ b.jobs
        /\ b.checklist = (specs # << >>)
    BY <1>2 DEF BatchRecord
  <2>3. pub[p].seeded => b.checklist
    BY <2>2, PublisherIs DEF SpecsAreRight
  <2> HIDE DEF b
  <2>4. CASE GoTo(p, "readBack") /\ UNCHANGED raises
    BY <1>1, <2>1, <2>2, <2>3, <2>4, WriteBatchKeeps
  <2>5. CASE raises' = raises + 1 /\ Ends(p, "lost")
    BY <1>1, <2>1, <2>2, <2>3, <2>5, LostWriteKeeps
  <2> QED BY <2>1, <2>4, <2>5 DEF Answered
<1>4. CASE ~MayUpload(p) /\ Pushes(p)
  <2>1. Ends(p, "status") /\ UNCHANGED <<annServer, raises>>
    BY <1>1, <1>4 DEF UploadGraph, annServer
  <2> QED BY <1>1, <1>2, <2>1, RefusedKeeps
<1>5. CASE ~MayUpload(p) /\ ~Pushes(p)
  <2>1. GoTo(p, "readBack") /\ UNCHANGED <<annServer, raises>>
    BY <1>1, <1>5 DEF UploadGraph, annServer
  <2>2. SetBatch(p, Current(p))
    <3>1. batches \in [Publisher \X Batch -> BatchRecord]
          /\ UNCHANGED batches
      BY <2>1 DEF AnnInv, AnnType, annServer
    <3> QED BY <3>1 DEF SetBatch, Current
  <2> QED
    BY <1>1, <1>2, <1>5, <2>1, <2>2, WriteBatchKeeps
    DEF annServer
<1> QED BY <1>3, <1>4, <1>5

LEMMA CreateBatchKeeps ==
  ASSUME AnnInv, NEW p \in Publisher, CreateBatch(p)
  PROVE  AnnInv'
<1> DEFINE n == pub[p].batch + 1
           i == Id(p, n)
           b == [NoBatch EXCEPT !.status = "DRAFT"]
           r == [pub[p] EXCEPT
                  !.leg = IF pub[p].binds THEN "bind" ELSE "upload",
                  !.batch = n,
                  !.created = IF Pushes(p) THEN @ ELSE @ \cup {n}]
<1>1. /\ pub[p].leg = "create" /\ batches' = [batches EXCEPT ![i] = b]
      /\ Answered(p, Set(p, r)) /\ UNCHANGED <<specs, workflows>>
  BY DEF CreateBatch, At
<1>2. /\ pub[p].plan \in PushPlans \cup {ProbePlan} /\ pub[p].plan # << >>
      /\ pub[p].batch = Done(pub[p].plan) /\ Works(p)
      /\ (Pushes(p) <=> pub[p].plan # ProbePlan)
      /\ pub[p].end = "ok" /\ pub[p].created \subseteq 1 .. pub[p].batch
      /\ n \in Batch /\ pub[p].batch \in 0 .. 2
  <2>1. pub[p].plan \in PushPlans \cup {ProbePlan}
    BY <1>1, PublisherIs DEF PlanIsRight
  <2>2. pub[p].plan # << >> /\ (Pushes(p) <=> pub[p].plan # ProbePlan)
    BY <2>1, PlansAre, PlansDiffer DEF Pushes, PushPlans
  <2>3. pub[p].batch = Done(pub[p].plan) /\ Done(pub[p].plan) \in 0 .. 2
    BY <1>1, <2>2, PublisherIs, DoneIs DEF PlanIsRight
  <2> QED BY <1>1, <2>1, <2>2, <2>3, PublisherIs
          DEF PlanIsRight, PublisherRecord, Works, Batch
<1>3. b \in BatchRecord /\ b.status = "DRAFT" /\ ~b.jobs
  BY DEF NoBatch, BatchRecord
<1>4. /\ r \in PublisherRecord /\ r.leg \in {"bind", "upload"}
      /\ r.plan = pub[p].plan /\ r.batch = n /\ r.end = "ok"
      /\ r.seeded = pub[p].seeded /\ r.unarchived = pub[p].unarchived
      /\ pub[p].created \subseteq r.created /\ r.created \subseteq 1 .. n
      /\ Pushes(p) => r.created = pub[p].created
      /\ Pushes(p) => n \notin r.created
  <2> DEFINE made == IF Pushes(p) THEN pub[p].created
                     ELSE pub[p].created \cup {n}
             leg == IF pub[p].binds THEN "bind" ELSE "upload"
  <2>1. n \notin pub[p].created /\ n \in 1 .. n
        /\ pub[p].created \subseteq 1 .. n
    BY <1>2
  <2>2. /\ made \in SUBSET Batch /\ pub[p].created \subseteq made
        /\ made \subseteq 1 .. n /\ (Pushes(p) => n \notin made)
        /\ (Pushes(p) => made = pub[p].created)
    BY <1>2, <2>1, PublisherIs DEF PublisherRecord
  <2>3. leg \in {"bind", "upload"} /\ n \in 0 .. 3
    BY <1>2
  <2>4. r = [pub[p] EXCEPT !.leg = leg, !.batch = n, !.created = made]
    OBVIOUS
  <2> HIDE DEF r, made, leg, n
  <2>5. pub[p] \in PublisherRecord
    BY PublisherIs
  <2>6. r \in PublisherRecord
    BY <2>2, <2>3, <2>4, <2>5 DEF PublisherRecord, BatchLegs
  <2>7. r.leg = leg /\ r.plan = pub[p].plan /\ r.batch = n
        /\ r.end = pub[p].end /\ r.seeded = pub[p].seeded /\ r.created = made
        /\ r.unarchived = pub[p].unarchived
    BY <2>4, <2>5 DEF PublisherRecord
  <2> QED BY <1>2, <2>2, <2>3, <2>6, <2>7
<1> HIDE DEF b
<1>5. /\ batches \in [Publisher \X Batch -> BatchRecord]
      /\ i \in Publisher \X Batch
      /\ \A q \in Publisher, m \in Batch :
           Id(q, m) \in Publisher \X Batch /\ (Id(q, m) = i => q = p /\ m = n)
  BY <1>2 DEF AnnInv, AnnType, Id
<1> HIDE DEF i
<1>6. /\ batches' \in [Publisher \X Batch -> BatchRecord] /\ batches'[i] = b
      /\ \A j \in Publisher \X Batch : j # i => batches'[j] = batches[j]
  BY <1>1, <1>3, <1>5
<1>7. Writes(p)
  BY <1>1, <1>5, <1>6 DEF Writes
<1>8. \A m \in Batch : pub[p].seeded /\ batches'[Id(p, m)].jobs =>
                         batches'[Id(p, m)].checklist
  BY <1>3, <1>5, <1>6, PublisherIs DEF SpecsAreRight
<1> HIDE DEF r, n
<1>9. CASE Set(p, r) /\ UNCHANGED raises
  <2>1. AnnType' /\ pub'[p] = r /\ \A q \in Publisher \ {p} : pub'[q] = pub[q]
    BY <1>1, <1>4, <1>6, <1>9 DEF AnnInv, AnnType, Set
  <2>2. PlanIsRight(p)'
    BY <1>2, <1>4, <2>1 DEF PlanIsRight, SeedLegs, BatchLegs, Works, n
  <2>3. Current(p)' = b /\ Pushes(p)' = Pushes(p)
    BY <1>4, <1>6, <2>1 DEF Current, Pushes, i, n
  <2>4. ASSUME NEW m \in Batch
        PROVE  /\ m > n => batches'[Id(p, m)] = NoBatch
               /\ batches'[Id(p, m)].status = "ACTIVE" =>
                    m \in r.created \cup r.unarchived
    <3>1. CASE m = n
      <4>1. batches'[Id(p, m)] = b /\ ~(m > n)
        BY <1>2, <1>6, <3>1 DEF i, Batch
      <4> QED BY <1>3, <4>1
    <3>2. CASE m # n
      <4>1. batches'[Id(p, m)] = batches[Id(p, m)]
        BY <1>5, <1>6, <3>2
      <4>2. m > n => m > pub[p].batch
        BY <1>2 DEF n, Batch
      <4>3. batches[Id(p, m)].status = "ACTIVE" =>
              m \in pub[p].created \cup pub[p].unarchived
        BY <1>1, <1>2, PublisherIs DEF BatchesAreRight
      <4>4. m > pub[p].batch => batches[Id(p, m)] = NoBatch
        BY <1>2, PublisherIs DEF BatchesAreRight
      <4> QED BY <1>4, <4>1, <4>2, <4>3, <4>4
    <3> QED BY <3>1, <3>2
  <2>5. BatchesAreRight(p)'
    <3>1. ASSUME NEW m \in 1 .. Done(r.plan)
          PROVE  batches'[Id(p, m)] = batches[Id(p, m)]
      <4>1. m \in Batch /\ m # n
        BY <1>2, <1>4, DoneIs DEF n
      <4> QED BY <1>5, <1>6, <4>1
    <3>2. \A m \in 1 .. Done(r.plan) :
            batches'[Id(p, m)].status = "ACTIVE" /\ batches'[Id(p, m)].jobs
      BY <1>2, <1>4, <3>1, PublisherIs DEF BatchesAreRight
    <3> QED BY <1>3, <1>4, <2>1, <2>3, <2>4, <3>2
            DEF BatchesAreRight, BatchLegs
  <2>6. SpecsAreRight(p)'
    BY <1>1, <1>4, <1>8, <2>1, PublisherIs DEF SpecsAreRight
  <2> QED BY <1>7, <2>1, <2>2, <2>5, <2>6, StepKeeps DEF Right
<1>10. CASE raises' = raises + 1 /\ Ends(p, "lost")
  <2>1. \A m \in Batch : batches'[Id(p, m)].status = "ACTIVE" =>
          batches[Id(p, m)].status = "ACTIVE"
    BY <1>3, <1>5, <1>6
  <2>2. specs' \in Seq(Publisher)
    BY <1>1, PublisherIs
  <2> QED BY <1>1, <1>2, <1>6, <1>7, <1>8, <1>10, <2>1, <2>2, LostKeeps
<1> QED BY <1>1, <1>9, <1>10 DEF Answered

LEMMA GetBatchKeeps ==
  ASSUME AnnInv, NEW p \in Publisher, GetBatch(p)
  PROVE  AnnInv'
<1> DEFINE n == pub[p].batch
           r == [[pub[p] EXCEPT !.created = Remembered(p)]
                   EXCEPT !.leg = "next", !.plan = Tail(@)]
<1>1. pub[p].leg = "readBack" /\ UNCHANGED <<annServer, raises>>
      /\ pub[p].leg \in BatchLegs
  BY DEF GetBatch, At, BatchLegs
<1>2. /\ n \in Batch /\ pub[p].end = "ok" /\ Works(p)
      /\ n = Done(pub[p].plan) + 1 /\ pub[p].created \subseteq 1 .. n
      /\ pub[p].plan \in PushPlans \cup {ProbePlan} /\ pub[p].plan # << >>
      /\ (Pushes(p) <=> pub[p].plan # ProbePlan)
  BY <1>1, AtItsBatch, PublisherIs DEF PlanIsRight
<1>3. (Current(p).status = "ACTIVE" /\ Current(p).jobs) = Pushes(p)
  <2>1. Pushes(p) \in BOOLEAN
    BY DEF Pushes
  <2>2. Pushes(p) => Current(p).status = "ACTIVE" /\ Current(p).jobs
    BY <1>1, PublisherIs DEF BatchesAreRight
  <2>3. ~Pushes(p) => ~(Current(p).status = "ACTIVE" /\ Current(p).jobs)
    BY <1>1, PublisherIs DEF BatchesAreRight
  <2> QED BY <2>1, <2>2, <2>3
<1>4. Set(p, r)
  BY <1>3 DEF GetBatch
<1>5. /\ Tail(pub[p].plan) \in ReadPlans \cup {<< >>}
      /\ Tail(pub[p].plan) # << >> =>
           Pushes(p) /\ Done(Tail(pub[p].plan)) = n
  <2>1. \/ pub[p].plan = FirstPush /\ n = 1 /\ Tail(pub[p].plan) = FirstRead
        \/ pub[p].plan = LastPush /\ n = 2 /\ Tail(pub[p].plan) = LastRead
        \/ pub[p].plan \in {OnePush, ProbePlan} /\ Tail(pub[p].plan) = << >>
    <3>1. CASE pub[p].plan = FirstPush
      BY <1>2, <3>1, PlansAre, DoneIs
    <3>2. CASE pub[p].plan = LastPush
      BY <1>2, <3>2, PlansAre, DoneIs
    <3>3. CASE pub[p].plan \in {OnePush, ProbePlan}
      BY <3>3, PlansAre
    <3> QED BY <1>2, <3>1, <3>2, <3>3 DEF PushPlans
  <2>2. FirstPush # ProbePlan /\ LastPush # ProbePlan
    BY PlansDiffer DEF PushPlans
  <2> HIDE DEF n
  <2> QED BY <1>2, <2>1, <2>2, DoneIs DEF ReadPlans
<1>6. /\ r \in PublisherRecord /\ r.leg = "next" /\ r.end = "ok"
      /\ r.plan = Tail(pub[p].plan) /\ r.batch = n
      /\ r.seeded = pub[p].seeded /\ r.created = pub[p].created \cup {n}
      /\ r.unarchived = pub[p].unarchived
  BY <1>2, <1>5, PublisherIs DEF PublisherRecord, Remembered
<1> HIDE DEF r
<1>7. pub'[p] = r /\ UNCHANGED <<batches, specs>>
  BY <1>1, <1>4 DEF Set, AnnInv, AnnType, annServer
<1>8. PlanIsRight(p)'
  <2>1. r.created \subseteq 1 .. n
    BY <1>2, <1>6 DEF Batch
  <2>2. r.plan # << >> => Done(r.plan) = n
    BY <1>5, <1>6
  <2> HIDE DEF n
  <2> QED BY <1>6, <1>7, <2>1, <2>2 DEF PlanIsRight, SeedLegs, BatchLegs
<1>9. BatchesAreRight(p)'
  <2>1. BatchesAreRight(p)
    BY PublisherIs
  <2>2. \A b \in Batch :
          /\ b > n => batches[Id(p, b)] = NoBatch
          /\ batches[Id(p, b)].status = "ACTIVE" =>
               b \in r.created \cup r.unarchived
    BY <1>2, <1>6, <2>1 DEF BatchesAreRight
  <2>3. r.plan # << >> => \A b \in 1 .. Done(r.plan) :
          batches[Id(p, b)].status = "ACTIVE" /\ batches[Id(p, b)].jobs
    <3>1. ASSUME r.plan # << >>, NEW b \in 1 .. n
          PROVE  batches[Id(p, b)].status = "ACTIVE" /\ batches[Id(p, b)].jobs
      <4>1. CASE b = n
        BY <1>1, <1>5, <1>6, <2>1, <3>1, <4>1 DEF BatchesAreRight, Current
      <4>2. CASE b # n
        <5>1. b \in 1 .. Done(pub[p].plan)
          BY <1>2, <3>1, <4>2, DoneIs
        <5> QED BY <1>2, <2>1, <5>1 DEF BatchesAreRight
      <4> QED BY <4>1, <4>2
    <3> QED BY <1>5, <1>6, <3>1
  <2> QED BY <1>6, <1>7, <2>2, <2>3 DEF BatchesAreRight, BatchLegs
<1>10. SpecsAreRight(p)'
  <2>1. r.plan # SeedPlan
    BY <1>5, <1>6, PlansDiffer
  <2> QED BY <1>6, <1>7, <2>1, PublisherIs DEF SpecsAreRight
<1> QED BY <1>1, <1>4, <1>6, <1>8, <1>9, <1>10, MoveKeeps, PublisherIs
        DEF Right

\* What was pushed is there whenever it is read again.
LEMMA ReadAgainKeeps ==
  ASSUME AnnInv, NEW p \in Publisher, ReadAgain(p)
  PROVE  AnnInv'
<1> DEFINE r == [pub[p] EXCEPT !.leg = "next", !.plan = Tail(@)]
<1>1. /\ pub[p].leg = "read" /\ UNCHANGED <<annServer, raises>>
      /\ Works(p) /\ pub[p].end = "ok"
  BY PublisherIs DEF ReadAgain, At, Works, PlanIsRight, PublisherRecord
<1>2. /\ pub[p].plan \in ReadPlans /\ pub[p].plan \notin {ProbePlan, << >>}
      /\ pub[p].batch = Done(pub[p].plan)
      /\ pub[p].created \subseteq 1 .. Done(pub[p].plan)
  BY <1>1, PublisherIs, PlansDiffer DEF PlanIsRight
<1>3. \A b \in 1 .. Done(pub[p].plan) :
        batches[Id(p, b)].status = "ACTIVE" /\ batches[Id(p, b)].jobs
  BY <1>1, <1>2, PublisherIs DEF BatchesAreRight
<1>4. Set(p, r)
  BY <1>2, <1>3 DEF ReadAgain
<1>5. /\ Tail(pub[p].plan) \in {LastPush, ProbePlan}
      /\ Done(Tail(pub[p].plan)) = Done(pub[p].plan)
  BY <1>2, PlansAre, DoneIs DEF ReadPlans
<1>6. /\ r \in PublisherRecord /\ r.leg = "next" /\ r.end = "ok"
      /\ r.plan = Tail(pub[p].plan) /\ r.batch = pub[p].batch
      /\ r.seeded = pub[p].seeded /\ r.created = pub[p].created
      /\ r.unarchived = pub[p].unarchived
  BY <1>1, <1>5, PublisherIs DEF PublisherRecord, PushPlans
<1> HIDE DEF r
<1>7. pub'[p] = r /\ UNCHANGED <<batches, specs>>
  BY <1>1, <1>4 DEF Set, AnnInv, AnnType, annServer
<1>8. PlanIsRight(p)'
  BY <1>1, <1>2, <1>5, <1>6, <1>7, PublisherIs
  DEF PlanIsRight, SeedLegs, BatchLegs
<1>9. BatchesAreRight(p)'
  BY <1>1, <1>3, <1>5, <1>6, <1>7, PublisherIs DEF BatchesAreRight, BatchLegs
<1>10. SpecsAreRight(p)'
  <2>1. r.plan # SeedPlan
    BY <1>5, <1>6, PlansDiffer DEF PushPlans
  <2> QED BY <1>1, <1>6, <1>7, <2>1, PublisherIs DEF SpecsAreRight
<1> QED BY <1>1, <1>4, <1>6, <1>8, <1>9, <1>10, MoveKeeps, PublisherIs
        DEF Right

LEMMA TeardownEndsKeeps ==
  ASSUME AnnInv, NEW p \in Publisher, TeardownEnds(p)
  PROVE  AnnInv'
<1> DEFINE r == [pub[p] EXCEPT !.leg = "ended"]
<1>1. /\ Set(p, r) /\ UNCHANGED <<annServer, raises>>
      /\ pub[p].leg = "teardown" /\ pub[p].created = {}
  BY DEF TeardownEnds, GoTo, At
<1>2. /\ r \in PublisherRecord /\ r.leg = "ended"
      /\ r.plan = pub[p].plan /\ r.batch = pub[p].batch
      /\ r.created = {} /\ r.end = pub[p].end /\ r.seeded = pub[p].seeded
      /\ r.unarchived = pub[p].unarchived
  BY <1>1, PublisherIs DEF PublisherRecord
<1> HIDE DEF r
<1>3. pub'[p] = r /\ UNCHANGED <<batches, specs>>
  BY <1>1 DEF Set, AnnInv, AnnType, annServer
<1>4. PlanIsRight(p)'
  BY <1>1, <1>2, <1>3, PublisherIs DEF PlanIsRight, SeedLegs, BatchLegs, Works
<1>5. BatchesAreRight(p)'
  <2>1. Pushes(p)' = Pushes(p) /\ Current(p)' = Current(p)
    BY <1>2, <1>3 DEF Pushes, Current
  <2> QED BY <1>1, <1>2, <1>3, <2>1, PublisherIs
          DEF BatchesAreRight, BatchLegs, Works
<1>6. SpecsAreRight(p)'
  BY <1>1, <1>2, <1>3, PublisherIs DEF SpecsAreRight
<1> QED BY <1>1, <1>2, <1>4, <1>5, <1>6, MoveKeeps, PublisherIs DEF Right

\* Archiving b, or passing it over: what is ACTIVE is still accounted for, and
\* what is not written stays.
LEMMA ArchiveWrites ==
  ASSUME AnnInv, NEW p \in Publisher, NEW b \in Batch,
         UNCHANGED <<specs, workflows>>, Archive(p, b) \/ UNCHANGED batches
  PROVE  /\ batches' \in [Publisher \X Batch -> BatchRecord] /\ Writes(p)
         /\ \A m \in Batch :
              /\ m # b => batches'[Id(p, m)] = batches[Id(p, m)]
              /\ batches'[Id(p, m)].jobs = batches[Id(p, m)].jobs
              /\ batches'[Id(p, m)].checklist = batches[Id(p, m)].checklist
         /\ batches'[Id(p, b)].status \in
              {batches[Id(p, b)].status, "ARCHIVED"}
         /\ Archive(p, b) => batches'[Id(p, b)].status = "ARCHIVED"
<1> DEFINE i == Id(p, b)
           a == [batches[i] EXCEPT !.status = "ARCHIVED"]
<1>1. /\ batches \in [Publisher \X Batch -> BatchRecord]
      /\ i \in Publisher \X Batch /\ batches[i] \in BatchRecord
      /\ \A q \in Publisher, m \in Batch :
           Id(q, m) \in Publisher \X Batch /\
           (Id(q, m) = i <=> q = p /\ m = b)
  BY DEF AnnInv, AnnType, Id
<1>2. CASE UNCHANGED batches
  <2>1. Archive(p, b) => batches'[i].status = "ARCHIVED"
    <3> SUFFICES ASSUME Archive(p, b) PROVE batches'[i].status = "ARCHIVED"
      OBVIOUS
    <3>1. batches' = [batches EXCEPT ![i] = a]
      BY DEF Archive
    <3>2. a.status = "ARCHIVED"
      BY <1>1 DEF BatchRecord
    <3> HIDE DEF a, i
    <3> QED BY <1>1, <3>1, <3>2
  <2> QED BY <1>1, <1>2, <2>1 DEF Writes
<1>3. CASE Archive(p, b)
  <2>1. /\ a \in BatchRecord /\ a.status = "ARCHIVED"
        /\ a.jobs = batches[i].jobs /\ a.checklist = batches[i].checklist
    BY <1>1 DEF BatchRecord
  <2>2. batches' = [batches EXCEPT ![i] = a]
    BY <1>3 DEF Archive
  <2>3. i = Id(p, b)
    OBVIOUS
  <2> HIDE DEF i, a
  <2>4. /\ batches' \in [Publisher \X Batch -> BatchRecord] /\ batches'[i] = a
        /\ \A j \in Publisher \X Batch : j # i => batches'[j] = batches[j]
    BY <1>1, <2>1, <2>2
  <2>5. \A q \in Publisher, m \in Batch :
          ~(q = p /\ m = b) => batches'[Id(q, m)] = batches[Id(q, m)]
    BY <1>1, <2>4
  <2>6. Writes(p)
    BY <2>5 DEF Writes
  <2> QED BY <1>1, <2>1, <2>3, <2>4, <2>5, <2>6
<1> QED BY <1>2, <1>3

\* A step of the teardown: r is p afterwards.
LEMMA TeardownKeeps ==
  ASSUME AnnInv, NEW p \in Publisher, NEW b \in pub[p].created,
         UNCHANGED <<specs, workflows>>, Archive(p, b) \/ UNCHANGED batches,
         pub[p].leg = "teardown", raises' \in Nat,
         NEW r \in PublisherRecord, Set(p, r),
         r.plan = pub[p].plan, r.batch = pub[p].batch,
         r.seeded = pub[p].seeded, r.created \subseteq pub[p].created,
         \/ /\ r.leg = "teardown" /\ r.end = pub[p].end
            /\ \/ /\ Archive(p, b) /\ r.created = pub[p].created \ {b}
                  /\ r.unarchived = pub[p].unarchived
               \/ /\ r.created \cup r.unarchived =
                       pub[p].created \cup pub[p].unarchived
         \/ /\ r.leg = "ended" /\ r.end = "lost"
            /\ r.created = pub[p].created /\ r.unarchived = pub[p].unarchived
  PROVE  AnnInv'
<1>1. b \in Batch /\ PlanIsRight(p) /\ BatchesAreRight(p) /\ SpecsAreRight(p)
  BY PublisherIs DEF PublisherRecord
<1>2. /\ batches' \in [Publisher \X Batch -> BatchRecord] /\ Writes(p)
      /\ \A m \in Batch :
           /\ m # b => batches'[Id(p, m)] = batches[Id(p, m)]
           /\ batches'[Id(p, m)].jobs = batches[Id(p, m)].jobs
           /\ batches'[Id(p, m)].checklist = batches[Id(p, m)].checklist
      /\ batches'[Id(p, b)].status \in {batches[Id(p, b)].status, "ARCHIVED"}
      /\ Archive(p, b) => batches'[Id(p, b)].status = "ARCHIVED"
  BY <1>1, ArchiveWrites
<1>3. pub' = [pub EXCEPT ![p] = r]
  BY DEF Set
<1>4. AnnType' /\ pub'[p] = r /\ \A q \in Publisher \ {p} : pub'[q] = pub[q]
  BY <1>2, <1>3 DEF AnnInv, AnnType
<1>5. PlanIsRight(p)'
  BY <1>1, <1>4 DEF PlanIsRight, SeedLegs, BatchLegs, Works
<1>6. BatchesAreRight(p)'
  <2>1. r.end # "lost" =>
          \A m \in Batch : m > r.batch => batches'[Id(p, m)] = NoBatch
    <3>1. b \in 1 .. pub[p].batch /\ pub[p].batch \in Nat
      BY <1>1, PublisherIs DEF PlanIsRight, PublisherRecord
    <3> QED BY <1>1, <1>2, <3>1 DEF BatchesAreRight, Batch
  <2>2. \A m \in Batch : batches'[Id(p, m)].status = "ACTIVE" =>
          m \in r.created \cup r.unarchived \/ (m = r.batch /\ r.end = "lost")
    <3> SUFFICES ASSUME NEW m \in Batch,
                        batches'[Id(p, m)].status = "ACTIVE"
                 PROVE  \/ m \in r.created \cup r.unarchived
                        \/ m = r.batch /\ r.end = "lost"
      OBVIOUS
    <3>1. batches[Id(p, m)].status = "ACTIVE"
      BY <1>2
    <3>2. \/ m \in pub[p].created \cup pub[p].unarchived
          \/ m = pub[p].batch /\ pub[p].end = "lost"
      BY <1>1, <3>1 DEF BatchesAreRight
    <3>3. ~(Archive(p, b) /\ m = b)
      BY <1>2
    <3> QED BY <3>2, <3>3
  <2>3. r.end = "unbindable" =>
          \A m \in Batch : batches'[Id(p, m)].status # "DRAFT"
    BY <1>1, <1>2 DEF BatchesAreRight
  <2>4. ASSUME r.end = "status"
        PROVE  /\ r.batch \in Batch /\ ~Current(p)'.jobs
               /\ Pushes(p)' => Current(p)'.status = "DRAFT"
                                /\ r.batch \notin r.created
    <3>1. /\ pub[p].batch \in Batch /\ ~Current(p).jobs
          /\ Pushes(p) => Current(p).status = "DRAFT"
                          /\ pub[p].batch \notin pub[p].created
      BY <1>1, <2>4 DEF BatchesAreRight
    <3>2. Pushes(p)' = Pushes(p)
      BY <1>4 DEF Pushes
    <3>3. Current(p)' = batches'[Id(p, pub[p].batch)]
      BY <1>4 DEF Current
    <3> QED BY <1>2, <3>1, <3>2, <3>3 DEF Current
  <2> QED BY <1>4, <2>1, <2>2, <2>3, <2>4 DEF BatchesAreRight, BatchLegs, Works
<1>7. SpecsAreRight(p)'
  BY <1>1, <1>2, <1>4 DEF SpecsAreRight
<1> QED BY <1>2, <1>4, <1>5, <1>6, <1>7, StepKeeps DEF Right

LEMMA ArchiveKeeps ==
  ASSUME AnnInv, NEW p \in Publisher, ArchiveBatch(p)
  PROVE  AnnInv'
<1>1. pub[p].leg = "teardown" /\ UNCHANGED <<specs, workflows>>
      /\ pub[p] \in PublisherRecord /\ raises \in Nat
  BY PublisherIs DEF ArchiveBatch, At
<1>2. PICK b \in pub[p].created :
        \/ /\ Archive(p, b) /\ UNCHANGED raises
           /\ Set(p, [pub[p] EXCEPT !.created = @ \ {b}])
        \/ /\ UNCHANGED <<batches, raises>>
           /\ Set(p, [pub[p] EXCEPT !.created = @ \ {b},
                                    !.unarchived = @ \cup {b}])
        \/ /\ raises < MaxRaises /\ raises' = raises + 1
           /\ Archive(p, b) \/ UNCHANGED batches
           /\ Set(p, [pub[p] EXCEPT !.leg = "ended", !.end = "lost"])
  BY DEF ArchiveBatch
<1>3. b \in Batch
  BY <1>1 DEF PublisherRecord
<1>4. CASE /\ Archive(p, b) /\ UNCHANGED raises
           /\ Set(p, [pub[p] EXCEPT !.created = @ \ {b}])
  <2> DEFINE r == [pub[p] EXCEPT !.created = @ \ {b}]
  <2>1. /\ r \in PublisherRecord /\ r.leg = "teardown" /\ r.end = pub[p].end
        /\ r.plan = pub[p].plan /\ r.batch = pub[p].batch
        /\ r.created = pub[p].created \ {b} /\ r.seeded = pub[p].seeded
        /\ r.unarchived = pub[p].unarchived
    BY <1>1 DEF PublisherRecord
  <2>2. Set(p, r)
    BY <1>4
  <2> HIDE DEF r
  <2> QED BY <1>1, <1>4, <2>1, <2>2, TeardownKeeps
<1>5. CASE /\ UNCHANGED <<batches, raises>>
           /\ Set(p, [pub[p] EXCEPT !.created = @ \ {b},
                                    !.unarchived = @ \cup {b}])
  <2> DEFINE r == [pub[p] EXCEPT !.created = @ \ {b},
                                 !.unarchived = @ \cup {b}]
  <2>1. /\ r \in PublisherRecord /\ r.leg = "teardown" /\ r.end = pub[p].end
        /\ r.plan = pub[p].plan /\ r.batch = pub[p].batch
        /\ r.created = pub[p].created \ {b} /\ r.seeded = pub[p].seeded
        /\ r.unarchived = pub[p].unarchived \cup {b}
    BY <1>1, <1>3 DEF PublisherRecord
  <2>2. Set(p, r)
    BY <1>5
  <2> HIDE DEF r
  <2>3. r.created \cup r.unarchived = pub[p].created \cup pub[p].unarchived
    BY <2>1
  <2> QED BY <1>1, <1>5, <2>1, <2>2, <2>3, TeardownKeeps
<1>6. CASE /\ raises < MaxRaises /\ raises' = raises + 1
           /\ Archive(p, b) \/ UNCHANGED batches
           /\ Set(p, [pub[p] EXCEPT !.leg = "ended", !.end = "lost"])
  <2> DEFINE r == [pub[p] EXCEPT !.leg = "ended", !.end = "lost"]
  <2>1. /\ r \in PublisherRecord /\ r.leg = "ended" /\ r.end = "lost"
        /\ r.plan = pub[p].plan /\ r.batch = pub[p].batch
        /\ r.created = pub[p].created /\ r.seeded = pub[p].seeded
        /\ r.unarchived = pub[p].unarchived
    BY <1>1 DEF PublisherRecord
  <2>2. Set(p, r)
    BY <1>6
  <2> HIDE DEF r
  <2> QED BY <1>1, <1>6, <2>1, <2>2, TeardownKeeps
<1> QED BY <1>2, <1>4, <1>5, <1>6

LEMMA AnnNextInv == AnnInv /\ [AnnNext]_annVars => AnnInv'
<1> SUFFICES ASSUME AnnInv, [AnnNext]_annVars PROVE AnnInv'
  OBVIOUS
<1>1. ASSUME NEW p \in Publisher,
             \/ NextItem(p) \/ GetSpec(p) \/ CreateSpec(p) \/ ConfirmSpec(p)
             \/ ListWorkflows(p) \/ ResolveWorkflow(p) \/ CreateBatch(p)
             \/ BindWorkflow(p) \/ UploadGraph(p) \/ GetBatch(p)
             \/ ReadAgain(p) \/ TeardownEnds(p) \/ ArchiveBatch(p)
             \/ CallRaises(p)
      PROVE  AnnInv'
  BY <1>1, NextItemKeeps, SeedStepsKeep, CreateSpecKeeps, ResolveKeeps,
     CreateBatchKeeps, BindKeeps, UploadKeeps, GetBatchKeeps, ReadAgainKeeps,
     TeardownEndsKeeps, ArchiveKeeps, CallRaisesKeeps
<1>2. CASE WorkflowChanges \/ UNCHANGED annVars
  <2>1. /\ UNCHANGED <<batches, specs, pub, raises>>
        /\ workflows' \in {"old", "none", "published"}
    BY <1>2 DEF WorkflowChanges, annVars, AnnInv, AnnType
  <2>2. AnnType'
    BY <2>1 DEF AnnInv, AnnType
  <2> QED BY <2>1, <2>2, OthersStay DEF AnnInv
<1> QED BY <1>1, <1>2 DEF AnnNext

\* Inductive: a publisher is where its plan says, its batches are as far as it
\* is, and those it made with a specification have checklists.
THEOREM AnnInvariant == AnnSpec => []AnnInv
BY AnnInitInv, AnnNextInv, PTL DEF AnnSpec

\* A push that the server refuses, or that finds no workflow, leaves no draft
\* and nothing that holds jobs, whatever other publishers do and whatever
\* raises.
THEOREM RefusalsHoldNoJobs == AnnSpec => []RefusedPushHoldsNoJobs
<1>1. AnnInv => RefusedPushHoldsNoJobs
  BY PublisherIs DEF BatchesAreRight, RefusedPushHoldsNoJobs
<1> QED BY AnnInvariant, <1>1, PTL

\* A publisher that found or created the specification makes no job without a
\* checklist.
THEOREM ChecklistsFollowTheSpec == AnnSpec => []SeededJobsHaveChecklists
<1>1. AnnInv => SeededJobsHaveChecklists
  BY PublisherIs DEF SpecsAreRight, SeededJobsHaveChecklists
<1> QED BY AnnInvariant, <1>1, PTL

\* An ended example leaves an ACTIVE batch only where the server refused to
\* archive it or behind a call that raised, and its assertions fail only when
\* two publishers created one specification.
THEOREM ResidueHasAReason == AnnSpec => []ResidueIsExplained
<1>1. ASSUME AnnInv PROVE ResidueIsExplained
  <2> SUFFICES ASSUME NEW p \in Publisher
               PROVE  /\ pub[p].leg = "ended" =>
                           \A b \in Batch :
                             batches[Id(p, b)].status = "ACTIVE" =>
                             \/ b \in pub[p].unarchived
                             \/ /\ pub[p].end = "lost"
                                /\ b \in pub[p].created \cup {pub[p].batch}
                      /\ pub[p].end = "asserted" => Len(specs) > 1
    BY DEF ResidueIsExplained
  <2>1. BatchesAreRight(p) /\ SpecsAreRight(p)
    BY <1>1, PublisherIs
  <2> QED BY <2>1 DEF BatchesAreRight, SpecsAreRight
<1> QED BY AnnInvariant, <1>1, PTL

-----------------------------------------------------------------------------
(***************************************************************************)
(* Dataset pushes, for any paths, versions, edits, failures and late       *)
(* uploads.  Where nothing is astray, the manifest is the newest version:  *)
(* a push breaks that at the paths it sends and restores it when it        *)
(* returns.  The script's tree differs from its manifest at its own file   *)
(* only, and nobody opens or closes a draft beside it.                     *)
(***************************************************************************)

DsFilesType == [Path -> Content \cup {NoFile}]
DsStatus == {"none", "draft", "published"}
OpRecord ==
  [at: {"idle", "clone", "drafted", "frozen", "require", "send"},
   version: 0 .. MaxVersion, uploads: SUBSET Path, deletes: SUBSET Path,
   entries: DsFilesType, status: DsStatus, stray: SUBSET Path]
ScriptStep ==
  {"free", "clone", "draft", "add", "push", "repush", "unlink", "remove",
   "publish", "refuse", "ok"}

DsType ==
  /\ dsVersion \in 1 .. MaxVersion /\ dsOpen \in BOOLEAN
  /\ dsOpen => dsVersion > 1
  /\ dsFiles \in [1 .. MaxVersion -> DsFilesType]
  /\ tree \in DsFilesType /\ manifest \in DsFilesType
  /\ localStatus \in DsStatus /\ op \in OpRecord
  /\ dsLate \subseteq Path \X (Content \cup {NoFile})
  /\ astray \subseteq Path /\ pushGap \subseteq Path
  /\ script \in ScriptStep

\* The content of the newest version.
Newest(p) == dsFiles[dsVersion][p]

\* Where draft, manifest, tree and the operation under way must agree.
LateIsAstray ==
  /\ LatePaths \subseteq astray
  /\ op.at \in {"clone", "require", "send"} => LatePaths \subseteq op.stray
ManifestIsNewest ==
  localStatus # "none" =>
    \A p \in Path \ astray : Newest(p) = manifest[p]
CloneIsNewest ==
  op.at = "clone" =>
    /\ pushGap = {} /\ op.version \in 1 .. dsVersion
    /\ \A p \in Path \ op.stray :
         /\ dsFiles[op.version][p] = Newest(p)
         /\ p \in op.deletes => tree[p] = Newest(p)
         /\ p \notin op.uploads \cup op.deletes => Newest(p) = NoFile
PushIsNewest ==
  op.at \in {"require", "send"} =>
    /\ localStatus # "none"
    /\ \A p \in op.deletes : op.entries[p] = NoFile
    /\ \A p \in Path \ (op.stray \cup op.uploads \cup op.deletes) :
         op.entries[p] # manifest[p] => Newest(p) = op.entries[p]

\* The script's own state.
ScriptOp ==
  script # "free" =>
    /\ op.at = "clone" =>
         /\ script = "clone" /\ op.version = dsVersion
         /\ op.status = StatusOf(dsVersion)
         /\ \A p \in op.uploads \cup op.deletes : Newest(p) # NoFile
         /\ \A p \in Path \ op.deletes : tree[p] = NoFile
    /\ op.at = "drafted" => script = "draft" /\ dsOpen
    /\ op.at = "frozen" => script = "publish" /\ ~dsOpen
    /\ op.at \in {"require", "send"} =>
         script \in {"push", "remove"} /\ op.entries = tree
ScriptServer ==
  /\ script = "clone" /\ op.at # "clone" => tree = NoFiles
  /\ script \in {"add", "push", "repush", "unlink", "remove", "publish"} =>
       localStatus = "draft" /\ (op.at # "frozen" => dsOpen)
  /\ script = "draft" =>
       localStatus # "none" /\ (op.at # "drafted" => ~dsOpen)
ScriptTree ==
  /\ script \in {"draft", "add"} =>
       /\ tree = manifest
       /\ \A p \in Path : Newest(p) = NoFile => manifest[p] = NoFile
  /\ script \in {"push", "repush", "unlink", "remove"} =>
       /\ scriptFile \in Path
       /\ \A p \in Path \ {scriptFile} : tree[p] = manifest[p]
       /\ script = "remove" <=> tree[scriptFile] = NoFile
       /\ script = "push" <=> manifest[scriptFile] = NoFile
       /\ script \in {"repush", "unlink"} =>
            tree[scriptFile] = manifest[scriptFile]

DsInv ==
  /\ DsType /\ LateIsAstray /\ ManifestIsNewest /\ CloneIsNewest
  /\ PushIsNewest /\ pushGap \subseteq astray
  /\ ScriptOp /\ ScriptServer /\ ScriptTree

\* What is left of an operation that ends.
LEMMA IdleIs ==
  /\ IdleOp \in OpRecord /\ IdleOp.at = "idle"
  /\ NoFiles \in DsFilesType /\ \A p \in Path : NoFiles[p] = NoFile
BY DatasetAssumption DEF IdleOp, OpRecord, NoFiles, DsFilesType, DsStatus

\* The content of a path in a version.
LEMMA FileIs ==
  ASSUME DsType, NEW v \in 1 .. MaxVersion, NEW p \in Path
  PROVE  dsFiles[v][p] \in Content \cup {NoFile}
<1>1. dsFiles[v] \in DsFilesType
  BY DEF DsType
<1> QED BY <1>1 DEF DsFilesType

LEMMA DatasetInitInv == DatasetInit => DsInv
<1> SUFFICES ASSUME DatasetInit PROVE DsInv
  OBVIOUS
<1>1. PICK f \in [Path -> Content \cup {NoFile}] :
        dsFiles = [v \in 1 .. MaxVersion |-> IF v = 1 THEN f ELSE NoFiles]
  BY DEF DatasetInit
<1>2. DsType
  <2>1. f \in DsFilesType /\ NoFiles \in DsFilesType
    BY IdleIs DEF DsFilesType
  <2>2. dsFiles \in [1 .. MaxVersion -> DsFilesType]
    BY <1>1, <2>1
  <2>3. dsVersion \in 1 .. MaxVersion /\ dsOpen = FALSE
    BY DatasetAssumption DEF DatasetInit
  <2>4. /\ tree \in DsFilesType /\ manifest \in DsFilesType
        /\ op \in OpRecord
    BY IdleIs DEF DatasetInit
  <2>5. /\ localStatus \in DsStatus /\ script \in ScriptStep
        /\ dsLate = {} /\ astray = {} /\ pushGap = {}
    BY DEF DatasetInit, DsStatus, ScriptStep
  <2> QED BY <2>2, <2>3, <2>4, <2>5 DEF DsType
<1>3. LatePaths = {}
  BY DEF DatasetInit, LatePaths
<1> QED
  BY <1>2, <1>3, IdleIs
  DEF DatasetInit, DsInv, LateIsAstray, ManifestIsNewest, CloneIsNewest,
      PushIsNewest, ScriptOp, ScriptServer, ScriptTree

LEMMA CloneStartKeeps ==
  ASSUME DsInv, NEW asked \in {"last", "latest"}, CloneStart(asked)
  PROVE  DsInv'
<1> DEFINE v == IF asked = "last" THEN dsVersion ELSE Latest
           ups == {p \in Path : dsFiles[v][p] # NoFile}
           old == {p \in Path : dsFiles[v][p] # dsFiles[dsVersion][p]}
           o == [IdleOp EXCEPT !.at = "clone", !.version = v,
                  !.uploads = ups, !.status = StatusOf(v),
                  !.stray = LatePaths \cup old]
<1>1. /\ op = IdleOp /\ script \in {"clone", "free"}
      /\ script = "clone" => v = dsVersion
      /\ op' = o /\ pushGap' = {}
      /\ UNCHANGED <<dsServer, clone, dsLate, dsRest, astray, script>>
  BY DEF CloneStart, MayCall
<1>2. LatePaths \subseteq Path /\ StatusOf(v) \in DsStatus
      /\ v \in 0 .. MaxVersion /\ v <= dsVersion
  BY DatasetAssumption
  DEF DsInv, DsType, LatePaths, StatusOf, DsStatus, Latest
<1>3. /\ o \in OpRecord /\ o.at = "clone" /\ o.version = v /\ o.uploads = ups
      /\ o.deletes = {} /\ o.status = StatusOf(v)
      /\ o.stray = LatePaths \cup old
  BY <1>2, IdleIs DEF OpRecord, IdleOp
<1> HIDE DEF o
<1>4. v \in 1 .. dsVersion
  BY DatasetAssumption DEF DsInv, DsType, Latest
<1>5. DsType'
  BY <1>1, <1>3 DEF DsInv, DsType, dsServer, clone, dsRest
<1>6. CloneIsNewest'
  BY <1>1, <1>3, <1>4 DEF CloneIsNewest, Newest, dsServer
<1> QED
  BY <1>1, <1>3, <1>4, <1>5, <1>6, IdleIs
  DEF DsInv, LateIsAstray, LatePaths, ManifestIsNewest, PushIsNewest, Newest,
      ScriptOp, ScriptServer, ScriptTree, StatusOf, dsServer, clone, dsRest

LEMMA CloneFileKeeps ==
  ASSUME DsInv, NEW p \in Path, CloneFile(p)
  PROVE  DsInv'
<1> DEFINE c == dsFiles[op.version][p]
           o == [op EXCEPT !.uploads = @ \ {p}, !.deletes = @ \cup {p}]
<1>1. /\ op.at = "clone" /\ p \in op.uploads
      /\ tree' = [tree EXCEPT ![p] = c] /\ op' = o
      /\ UNCHANGED <<dsServer, manifest, localStatus, dsLate, dsRest, astray,
                     pushGap, script>>
  BY DEF CloneFile
<1>2. op.version \in 1 .. MaxVersion /\ op \in OpRecord
  BY <1>1, DatasetAssumption DEF DsInv, DsType, CloneIsNewest
<1>3. c \in Content \cup {NoFile}
  BY <1>2, FileIs DEF DsInv
<1>4. /\ o \in OpRecord /\ o.at = "clone" /\ o.version = op.version
      /\ o.uploads = op.uploads \ {p} /\ o.deletes = op.deletes \cup {p}
      /\ o.status = op.status /\ o.stray = op.stray
  BY <1>1, <1>2 DEF OpRecord
<1> HIDE DEF o
<1>5. /\ tree' \in DsFilesType /\ tree'[p] = c
      /\ \A q \in Path \ {p} : tree'[q] = tree[q]
  BY <1>1, <1>3 DEF DsInv, DsType, DsFilesType
<1>6. DsType'
  BY <1>1, <1>4, <1>5 DEF DsInv, DsType, dsServer, dsRest
<1>7. CloneIsNewest'
  BY <1>1, <1>4, <1>5 DEF DsInv, CloneIsNewest, Newest, dsServer
<1>8. ScriptOp' /\ ScriptServer' /\ ScriptTree'
  BY <1>1, <1>4, <1>5
  DEF DsInv, ScriptOp, ScriptServer, ScriptTree, Newest, StatusOf, dsServer,
      dsRest
<1> QED
  BY <1>1, <1>4, <1>6, <1>7, <1>8
  DEF DsInv, LateIsAstray, LatePaths, ManifestIsNewest, PushIsNewest, Newest,
      dsServer

LEMMA CloneWritesKeeps ==
  ASSUME DsInv, CloneWrites
  PROVE  DsInv'
<1>1. /\ op.at = "clone" /\ op.uploads = {} /\ op' = IdleOp
      /\ localStatus' = op.status /\ astray' = op.stray
      /\ UNCHANGED <<dsServer, tree, dsLate, dsRest, pushGap>>
  BY DEF CloneWrites
<1>2. /\ manifest' \in DsFilesType
      /\ \A p \in Path : manifest'[p] = IF p \in op.deletes THEN tree[p]
                                        ELSE NoFile
  BY DEF CloneWrites, DsInv, DsType, DsFilesType
<1>3. /\ op.status \in DsStatus /\ op.stray \subseteq Path
  BY DEF DsInv, DsType, OpRecord
<1>4. script' = (IF script = "free" THEN "free"
                 ELSE IF op.status = "draft" THEN "add" ELSE "draft")
  BY <1>1 DEF CloneWrites
<1>5. DsType'
  BY <1>1, <1>2, <1>3, <1>4, IdleIs
  DEF DsInv, DsType, ScriptStep, dsServer, dsRest
<1>6. LateIsAstray'
  BY <1>1, IdleIs DEF DsInv, LateIsAstray, LatePaths
<1>7. ManifestIsNewest'
  BY <1>1, <1>2, <1>3 DEF DsInv, ManifestIsNewest, CloneIsNewest, Newest,
                          dsServer
<1>8. ASSUME script # "free"
      PROVE  /\ script' = IF dsOpen THEN "add" ELSE "draft"
             /\ localStatus' = IF dsOpen THEN "draft" ELSE "published"
             /\ \A p \in Path : manifest'[p] = tree[p]
             /\ \A p \in Path : Newest(p) = NoFile => manifest'[p] = NoFile
  BY <1>1, <1>2, <1>4, <1>8 DEF DsInv, ScriptOp, StatusOf
<1>9. script # "free" => manifest' = tree
  BY <1>2, <1>8 DEF DsInv, DsType, DsFilesType
<1> QED
  BY <1>1, <1>4, <1>5, <1>6, <1>7, <1>8, <1>9, IdleIs
  DEF DsInv, CloneIsNewest, PushIsNewest, ScriptOp, ScriptServer, ScriptTree,
      Newest, dsServer

\* A version that is opened starts as a copy of the newest.
LEMMA OpenDraftIs ==
  ASSUME DsInv, OpenDraft
  PROVE  /\ ~dsOpen /\ dsOpen' /\ dsOpen' \in BOOLEAN
         /\ dsVersion' \in 2 .. MaxVersion /\ dsVersion' = dsVersion + 1
         /\ dsFiles' \in [1 .. MaxVersion -> DsFilesType]
         /\ \A p \in Path : Newest(p)' = Newest(p)
         /\ \A v \in 1 .. dsVersion : dsFiles'[v] = dsFiles[v]
<1>1. /\ dsVersion \in 1 .. MaxVersion /\ dsVersion < MaxVersion
      /\ dsVersion' = dsVersion + 1 /\ dsVersion' \in 2 .. MaxVersion
      /\ dsFiles \in [1 .. MaxVersion -> DsFilesType]
      /\ dsFiles' = [dsFiles EXCEPT ![dsVersion + 1] = dsFiles[dsVersion]]
  BY DatasetAssumption DEF DsInv, DsType, OpenDraft
<1>2. dsFiles'[dsVersion + 1] = dsFiles[dsVersion]
  BY <1>1
<1>3. \A v \in 1 .. dsVersion : dsFiles'[v] = dsFiles[v]
  BY <1>1
<1>4. dsFiles' \in [1 .. MaxVersion -> DsFilesType]
  BY <1>1
<1> QED BY <1>1, <1>2, <1>3, <1>4 DEF OpenDraft, Newest

\* The server moves, and the newest content stays what it was.
LEMMA ServerMoves ==
  ASSUME DsInv,
         dsFiles' \in [1 .. MaxVersion -> DsFilesType],
         dsVersion' \in dsVersion .. MaxVersion,
         dsOpen' \in BOOLEAN, dsOpen' => dsVersion' > 1,
         \A p \in Path : Newest(p)' = Newest(p),
         \A v \in 1 .. dsVersion : dsFiles'[v] = dsFiles[v],
         UNCHANGED <<clone, dsLate, astray>>,
         op' = op, script = "free", script' = script,
         pushGap' = {}
  PROVE  DsInv'
<1>1. DsType'
  BY DatasetAssumption DEF DsInv, DsType, clone
<1>2. CloneIsNewest'
  BY DatasetAssumption DEF DsInv, DsType, CloneIsNewest, clone
<1>3. ManifestIsNewest' /\ PushIsNewest'
  BY DEF DsInv, ManifestIsNewest, PushIsNewest, clone
<1> QED
  BY <1>1, <1>2, <1>3
  DEF DsInv, LateIsAstray, LatePaths, ScriptOp, ScriptServer, ScriptTree

LEMMA OthersKeep ==
  ASSUME DsInv, Others
  PROVE  DsInv'
<1>1. /\ script = "free" /\ pushGap' = {}
      /\ UNCHANGED <<clone, op, dsLate, dsRest, astray, script>>
  BY DEF Others
<1>2. CASE OpenDraft
  BY <1>1, <1>2, OpenDraftIs, ServerMoves, DatasetAssumption DEF DsInv, DsType
<1>3. CASE dsOpen /\ dsOpen' = FALSE /\ UNCHANGED <<dsVersion, dsFiles>>
  <2>1. \A p \in Path : Newest(p)' = Newest(p)
    BY <1>3 DEF Newest
  <2>2. /\ dsFiles' \in [1 .. MaxVersion -> DsFilesType]
        /\ dsVersion' \in dsVersion .. MaxVersion
        /\ dsOpen' \in BOOLEAN /\ ~dsOpen'
        /\ \A v \in 1 .. dsVersion : dsFiles'[v] = dsFiles[v]
    <3>1. /\ dsVersion \in 1 .. MaxVersion /\ dsVersion' = dsVersion
          /\ dsFiles \in [1 .. MaxVersion -> DsFilesType]
          /\ dsFiles' = dsFiles /\ dsOpen' = FALSE
      BY <1>3 DEF DsInv, DsType
    <3>2. dsVersion' \in dsVersion .. MaxVersion
      BY <3>1, DatasetAssumption
    <3> QED BY <3>1, <3>2
  <2> QED BY <1>1, <2>1, <2>2, ServerMoves
<1> QED BY <1>2, <1>3 DEF Others

LEMMA DraftKeeps ==
  ASSUME DsInv, Draft
  PROVE  DsInv'
<1> DEFINE o == [IdleOp EXCEPT !.at = "drafted"]
<1>1. /\ op = IdleOp /\ script \in {"draft", "free"} /\ OpenDraft /\ op' = o
      /\ UNCHANGED <<clone, dsLate, dsRest, astray, pushGap, script>>
  BY DEF Draft, MayCall
<1>2. o \in OpRecord /\ o.at = "drafted"
  BY IdleIs DEF IdleOp, OpRecord
<1> HIDE DEF o
<1>3. DsType'
  BY <1>1, <1>2, OpenDraftIs DEF DsInv, DsType, clone
<1>4. ManifestIsNewest'
  BY <1>1, OpenDraftIs DEF DsInv, ManifestIsNewest, clone
<1>5. ScriptTree'
  BY <1>1, OpenDraftIs DEF DsInv, ScriptTree, clone
<1> QED
  BY <1>1, <1>2, <1>3, <1>4, <1>5, OpenDraftIs
  DEF DsInv, LateIsAstray, LatePaths, CloneIsNewest, PushIsNewest, ScriptOp,
      ScriptServer, clone

LEMMA UpdateLocalKeeps ==
  ASSUME DsInv, UpdateLocal
  PROVE  DsInv'
<1>1. /\ op.at \in {"drafted", "frozen"} /\ op' = IdleOp
      /\ localStatus' = IF localStatus = "none" THEN "none"
                        ELSE IF op.at = "drafted" THEN "draft" ELSE "published"
      /\ UNCHANGED <<dsServer, tree, manifest, dsLate, dsRest, astray,
                     pushGap>>
  BY DEF UpdateLocal
<1>2. /\ script = "free" => script' = "free"
      /\ script # "free" =>
           script' = IF op.at = "drafted" THEN "add" ELSE "refuse"
  BY DEF UpdateLocal, Step, Script, DsInv, ScriptOp
<1>3. DsType'
  BY <1>1, <1>2, IdleIs
  DEF DsInv, DsType, DsStatus, ScriptStep, dsServer
<1>4. ScriptOp' /\ ScriptServer' /\ ScriptTree'
  BY <1>1, <1>2, IdleIs
  DEF DsInv, ScriptOp, ScriptServer, ScriptTree, Newest, dsServer
<1> QED
  BY <1>1, <1>3, <1>4, IdleIs
  DEF DsInv, LateIsAstray, LatePaths, ManifestIsNewest, CloneIsNewest,
      PushIsNewest, Newest, dsServer

LEMMA PublishKeeps ==
  ASSUME DsInv, Publish
  PROVE  DsInv'
<1> DEFINE o == [IdleOp EXCEPT !.at = "frozen"]
<1>1. /\ op = IdleOp /\ script \in {"publish", "free"} /\ ~dsOpen'
      /\ dsOpen' \in BOOLEAN /\ op' = o
      /\ UNCHANGED <<dsVersion, dsFiles, clone, dsLate, dsRest, astray,
                     pushGap, script>>
  BY DEF Publish, MayCall
<1>2. o \in OpRecord /\ o.at = "frozen"
  BY IdleIs DEF IdleOp, OpRecord
<1> HIDE DEF o
<1>3. DsType'
  BY <1>1, <1>2 DEF DsInv, DsType, clone
<1> QED
  BY <1>1, <1>2, <1>3
  DEF DsInv, LateIsAstray, LatePaths, ManifestIsNewest, CloneIsNewest,
      PushIsNewest, ScriptOp, ScriptServer, ScriptTree, Newest, clone

LEMMA RefusesKeep ==
  ASSUME DsInv, NEW step \in {"draft", "publish", "refuse"}, Refuses(step)
  PROVE  DsInv'
<1>1. /\ op = IdleOp /\ script \in {step, "free"}
      /\ step = "draft" => dsOpen
      /\ step = "publish" => ~dsOpen
      /\ UNCHANGED <<dsServer, clone, op, dsLate, dsRest, astray, pushGap>>
  BY DEF Refuses, MayCall
<1>2. script = "free" \/ (script = "refuse" /\ step = "refuse")
  BY <1>1, IdleIs DEF DsInv, ScriptServer
<1>3. script' = IF script = "free" THEN "free" ELSE "ok"
  BY <1>2 DEF Refuses, Step, Script
<1>4. DsType'
  BY <1>1, <1>3 DEF DsInv, DsType, ScriptStep, dsServer, clone
<1> QED
  BY <1>1, <1>2, <1>3, <1>4, IdleIs
  DEF DsInv, LateIsAstray, LatePaths, ManifestIsNewest, CloneIsNewest,
      PushIsNewest, ScriptOp, ScriptServer, ScriptTree, Newest, dsServer, clone

\* What the script asserts of what it sends.
ScriptChanges ==
  /\ script = "push" => Uploads = {scriptFile} /\ Deletes = {}
  /\ script = "repush" => Uploads = {} /\ Deletes = {}
  /\ script = "remove" => Uploads = {} /\ Deletes = {scriptFile}

LEMMA ChangesAre ==
  ASSUME DsInv PROVE ScriptChanges
<1> DEFINE at == script \in {"push", "repush", "remove"}
<1>1. ASSUME at
      PROVE  /\ scriptFile \in Path
             /\ \A p \in Path \ {scriptFile} : tree[p] = manifest[p]
             /\ script = "remove" <=> tree[scriptFile] = NoFile
             /\ script = "push" <=> manifest[scriptFile] = NoFile
  BY <1>1 DEF DsInv, ScriptTree
<1>2. ASSUME at
      PROVE  Uploads \cup Deletes \subseteq {scriptFile}
  BY <1>1, <1>2 DEF Uploads, Deletes
<1>3. script = "push" => scriptFile \in Uploads /\ scriptFile \notin Deletes
  BY <1>1 DEF Uploads, Deletes
<1>4. script = "remove" => scriptFile \notin Uploads /\ scriptFile \in Deletes
  BY <1>1 DEF Uploads, Deletes
<1>5. script = "repush" => tree[scriptFile] = manifest[scriptFile]
  BY DEF DsInv, ScriptTree
<1>6. script = "repush" => scriptFile \notin Uploads \cup Deletes
  BY <1>1, <1>5 DEF Uploads, Deletes
<1> QED BY <1>2, <1>3, <1>4, <1>6 DEF ScriptChanges

LEMMA PushStartKeeps ==
  ASSUME DsInv, PushStart
  PROVE  DsInv'
<1>1. /\ op = IdleOp /\ script \in Pushing \cup {"free"}
      /\ localStatus = "draft"
      /\ UNCHANGED <<dsServer, clone, dsLate, dsRest, astray>>
  BY DEF PushStart, MayCall
<1>2. CASE Uploads \cup Deletes = {}
  <2>1. /\ Step(Pushing, PushAsserted({}, {})) /\ UNCHANGED op
        /\ pushGap' = {p \in Path : dsOpen /\ dsFiles[dsVersion][p] # tree[p]}
    BY <1>2 DEF PushStart
  <2>2. script \in {"free", "repush"}
    BY <1>1, <1>2, ChangesAre DEF ScriptChanges, Pushing
  <2>3. script' = IF script = "free" THEN "free" ELSE "unlink"
    BY <2>1, <2>2 DEF Step, PushAsserted, Script
  <2>4. \A p \in Path : tree[p] = manifest[p]
    BY <1>2 DEF Uploads, Deletes
  <2>5. pushGap' \subseteq Path /\ pushGap' \subseteq astray
    BY <1>1, <2>1, <2>4 DEF DsInv, ManifestIsNewest, Newest
  <2>6. DsType'
    BY <1>1, <2>1, <2>3, <2>5 DEF DsInv, DsType, ScriptStep, dsServer, clone
  <2>7. ScriptOp' /\ ScriptServer' /\ ScriptTree'
    BY <1>1, <2>1, <2>2, <2>3, IdleIs
    DEF DsInv, ScriptOp, ScriptServer, ScriptTree, Newest, dsServer, clone,
        dsRest
  <2> QED
    BY <1>1, <2>1, <2>5, <2>6, <2>7, IdleIs
    DEF DsInv, LateIsAstray, LatePaths, ManifestIsNewest, CloneIsNewest,
        PushIsNewest, Newest, dsServer, clone
<1>3. CASE Uploads \cup Deletes # {}
  <2> DEFINE o == [IdleOp EXCEPT !.at = "require", !.uploads = Uploads,
                      !.deletes = Deletes, !.entries = tree,
                      !.stray = LatePaths]
  <2>1. op' = o /\ pushGap' = {} /\ UNCHANGED script
    BY <1>3 DEF PushStart
  <2>2. /\ Uploads \subseteq Path /\ Deletes \subseteq Path
        /\ tree \in DsFilesType /\ LatePaths \subseteq Path
    BY DEF Uploads, Deletes, LatePaths, DsInv, DsType
  <2>3. /\ o \in OpRecord /\ o.at = "require" /\ o.uploads = Uploads
        /\ o.deletes = Deletes /\ o.entries = tree /\ o.stray = LatePaths
    BY <2>2, IdleIs DEF IdleOp, OpRecord
  <2> HIDE DEF o
  <2>4. DsType'
    BY <1>1, <2>1, <2>3 DEF DsInv, DsType, dsServer, clone
  <2>5. PushIsNewest'
    BY <1>1, <2>1, <2>3 DEF PushIsNewest, Uploads, Deletes, dsServer, clone
  <2>6. script # "repush"
    BY <1>3, ChangesAre DEF ScriptChanges
  <2>7. ScriptOp' /\ ScriptServer' /\ ScriptTree'
    BY <1>1, <2>1, <2>3, <2>6, IdleIs
    DEF DsInv, ScriptOp, ScriptServer, ScriptTree, Newest, Pushing, dsServer,
        clone, dsRest
  <2> QED
    BY <1>1, <2>1, <2>3, <2>4, <2>5, <2>7
    DEF DsInv, LateIsAstray, LatePaths, ManifestIsNewest, CloneIsNewest,
        Newest, dsServer, clone
<1> QED BY <1>2, <1>3

LEMMA RequireDraftKeeps ==
  ASSUME DsInv, RequireDraft
  PROVE  DsInv'
<1>1. /\ op.at = "require"
      /\ UNCHANGED <<dsServer, clone, dsLate, dsRest, astray, pushGap>>
  BY DEF RequireDraft
<1>2. CASE dsOpen
  <2> DEFINE o == [op EXCEPT !.at = "send", !.version = dsVersion]
  <2>1. op' = o /\ UNCHANGED script
    BY <1>2 DEF RequireDraft
  <2>2. /\ o \in OpRecord /\ o.at = "send" /\ o.uploads = op.uploads
        /\ o.deletes = op.deletes /\ o.entries = op.entries
        /\ o.stray = op.stray
    <3>1. op \in OpRecord /\ dsVersion \in 0 .. MaxVersion
      BY DatasetAssumption DEF DsInv, DsType
    <3> QED BY <3>1 DEF OpRecord
  <2> HIDE DEF o
  <2>3. DsType'
    BY <1>1, <2>1, <2>2 DEF DsInv, DsType, dsServer, clone
  <2> QED
    BY <1>1, <2>1, <2>2, <2>3
    DEF DsInv, LateIsAstray, LatePaths, ManifestIsNewest, CloneIsNewest,
        PushIsNewest, Newest, ScriptOp, ScriptServer, ScriptTree, dsServer,
        clone, dsRest
<1>3. CASE ~dsOpen
  <2>1. op' = IdleOp /\ Step(Pushing, FALSE)
    BY <1>3 DEF RequireDraft
  <2>2. script = "free"
    BY <1>1, <1>3 DEF DsInv, ScriptOp, ScriptServer
  <2>3. script' = "free"
    BY <2>1, <2>2 DEF Step
  <2>4. DsType'
    BY <1>1, <2>1, <2>3, IdleIs DEF DsInv, DsType, ScriptStep, dsServer, clone
  <2> QED
    BY <1>1, <2>1, <2>3, <2>4, IdleIs
    DEF DsInv, LateIsAstray, LatePaths, ManifestIsNewest, CloneIsNewest,
        PushIsNewest, Newest, ScriptOp, ScriptServer, ScriptTree, dsServer,
        clone
<1> QED BY <1>2, <1>3

\* A file of the draft is written.
LEMMA WriteIs ==
  ASSUME DsInv, NEW p \in Path, NEW c \in Content \cup {NoFile},
         dsFiles' = [dsFiles EXCEPT ![dsVersion][p] = c],
         dsVersion' = dsVersion
  PROVE  /\ dsFiles' \in [1 .. MaxVersion -> DsFilesType]
         /\ Newest(p)' = c
         /\ \A q \in Path \ {p} : Newest(q)' = Newest(q)
         /\ \A v \in 1 .. MaxVersion, q \in Path \ {p} :
              dsFiles'[v][q] = dsFiles[v][q]
<1> DEFINE f == [dsFiles[dsVersion] EXCEPT ![p] = c]
<1>1. /\ dsVersion \in 1 .. MaxVersion
      /\ dsFiles \in [1 .. MaxVersion -> DsFilesType]
      /\ dsFiles' = [dsFiles EXCEPT ![dsVersion] = f]
  BY DEF DsInv, DsType
<1>2. f \in DsFilesType /\ f[p] = c
      /\ \A q \in Path \ {p} : f[q] = dsFiles[dsVersion][q]
  <2>1. dsFiles[dsVersion] \in DsFilesType
    BY <1>1
  <2> QED BY <2>1 DEF DsFilesType
<1> HIDE DEF f
<1>3. dsFiles' \in [1 .. MaxVersion -> DsFilesType] /\ dsFiles'[dsVersion] = f
      /\ \A v \in 1 .. MaxVersion : v # dsVersion => dsFiles'[v] = dsFiles[v]
  BY <1>1, <1>2
<1> QED BY <1>2, <1>3 DEF Newest

\* A step of the push that sends a path, by which draft and manifest part.
LEMMA SentKeeps ==
  ASSUME DsInv, op.at = "send", NEW p \in Path,
         NEW c \in Content \cup {NoFile}, c = op.entries[p],
         dsFiles' = [dsFiles EXCEPT ![dsVersion][p] = c],
         NEW o \in OpRecord, op' = o, o.at = "send",
         o.entries = op.entries, o.stray = op.stray,
         o.uploads \cup o.deletes \in
           {op.uploads \cup op.deletes, (op.uploads \cup op.deletes) \ {p}},
         o.deletes \subseteq op.deletes,
         astray' = astray \cup {p},
         UNCHANGED <<dsVersion, dsOpen, clone, dsLate, dsRest, pushGap,
                     script>>
  PROVE  DsInv'
<1>1. /\ dsFiles' \in [1 .. MaxVersion -> DsFilesType]
      /\ Newest(p)' = c
      /\ \A q \in Path \ {p} : Newest(q)' = Newest(q)
  BY WriteIs
<1>2. DsType'
  BY <1>1 DEF DsInv, DsType, clone
<1>3. ManifestIsNewest'
  BY <1>1 DEF DsInv, ManifestIsNewest, clone
<1>4. PushIsNewest'
  <2>1. \A q \in Path \ (o.stray \cup o.uploads \cup o.deletes) :
          op.entries[q] # manifest[q] => Newest(q)' = op.entries[q]
    BY <1>1 DEF DsInv, PushIsNewest
  <2> QED BY <2>1 DEF DsInv, PushIsNewest, clone
<1>5. ScriptOp' /\ ScriptServer' /\ ScriptTree'
  BY DEF DsInv, ScriptOp, ScriptServer, ScriptTree, clone, dsRest
<1> QED
  BY <1>2, <1>3, <1>4, <1>5
  DEF DsInv, LateIsAstray, LatePaths, CloneIsNewest

LEMMA UploadPathKeeps ==
  ASSUME DsInv, NEW p \in Path, Upload(p)
  PROVE  DsInv'
<1> DEFINE o == [op EXCEPT !.uploads = @ \ {p}]
<1>1. /\ op.at = "send" /\ p \in op.uploads /\ tree[p] = op.entries[p]
      /\ dsFiles' = [dsFiles EXCEPT ![dsVersion][p] = tree[p]]
      /\ op' = o /\ astray' = astray \cup {p}
      /\ UNCHANGED <<dsVersion, dsOpen, clone, dsLate, dsRest, pushGap,
                     script>>
  BY DEF Upload
<1>2. /\ o \in OpRecord /\ o.at = "send" /\ o.entries = op.entries
      /\ o.stray = op.stray /\ o.deletes = op.deletes
      /\ o.uploads = op.uploads \ {p}
  BY <1>1 DEF DsInv, DsType, OpRecord
<1>3. tree[p] \in Content \cup {NoFile}
  BY DEF DsInv, DsType, DsFilesType
<1> HIDE DEF o
<1>4. o.uploads \cup o.deletes \in
        {op.uploads \cup op.deletes, (op.uploads \cup op.deletes) \ {p}}
  BY <1>1, <1>2
<1> QED BY <1>1, <1>2, <1>3, <1>4, SentKeeps

LEMMA DeletePathKeeps ==
  ASSUME DsInv, NEW p \in Path, DeletePath(p)
  PROVE  DsInv'
<1> DEFINE o == [op EXCEPT !.deletes = @ \ {p}]
<1>1. /\ op.at = "send" /\ op.uploads = {} /\ p \in op.deletes
      /\ dsFiles' = [dsFiles EXCEPT ![dsVersion][p] = NoFile]
      /\ op' = o /\ astray' = astray \cup {p}
      /\ UNCHANGED <<dsVersion, dsOpen, clone, dsLate, dsRest, pushGap,
                     script>>
  BY DEF DeletePath
<1>2. /\ o \in OpRecord /\ o.at = "send" /\ o.entries = op.entries
      /\ o.stray = op.stray /\ o.deletes = op.deletes \ {p}
      /\ o.uploads = op.uploads
  BY <1>1 DEF DsInv, DsType, OpRecord
<1>3. op.entries[p] = NoFile
  BY <1>1 DEF DsInv, PushIsNewest
<1> HIDE DEF o
<1>4. o.uploads \cup o.deletes \in
        {op.uploads \cup op.deletes, (op.uploads \cup op.deletes) \ {p}}
  BY <1>1, <1>2
<1> QED BY <1>1, <1>2, <1>3, <1>4, SentKeeps

LEMMA PushReturnsKeeps ==
  ASSUME DsInv, PushReturns
  PROVE  DsInv'
<1> DEFINE ups == {p \in Sent : op.entries[p] # NoFile}
           dels == {p \in Sent : op.entries[p] = NoFile}
<1>1. /\ op.at = "send" /\ op.uploads \cup op.deletes = {} /\ op' = IdleOp
      /\ manifest' = op.entries /\ astray' = (astray \ Sent) \cup op.stray
      /\ pushGap' = {p \in Path : dsOpen /\
                                  dsFiles[dsVersion][p] # op.entries[p]}
      /\ Step(Pushing, PushAsserted(ups, dels))
      /\ UNCHANGED <<dsServer, tree, localStatus, dsLate, dsRest>>
  BY DEF PushReturns, NewManifest
<1>2. op.entries \in DsFilesType /\ op.stray \subseteq Path
      /\ Sent \subseteq Path
  BY DEF DsInv, DsType, OpRecord, Sent
<1>3. \A p \in Path \ astray' : Newest(p) = op.entries[p]
  <2> SUFFICES ASSUME NEW p \in Path, p \notin op.stray,
                      p \notin astray \/ p \in Sent
               PROVE  Newest(p) = op.entries[p]
    BY <1>1
  <2>1. CASE p \in Sent
    BY <1>1, <2>1 DEF Sent, DsInv, PushIsNewest
  <2>2. CASE p \notin Sent
    BY <1>1, <2>2 DEF Sent, DsInv, PushIsNewest, ManifestIsNewest
  <2> QED BY <2>1, <2>2
<1>4. pushGap' \subseteq Path /\ pushGap' \subseteq astray'
  BY <1>1, <1>3 DEF Newest
<1>5. script # "free" =>
        /\ script \in {"push", "remove"} /\ op.entries = tree
        /\ scriptFile \in Path /\ Sent = {scriptFile}
        /\ script = "remove" <=> op.entries[scriptFile] = NoFile
        /\ \A p \in Path \ {scriptFile} : tree[p] = manifest[p]
  <2> SUFFICES ASSUME script # "free"
               PROVE  /\ script \in {"push", "remove"} /\ op.entries = tree
                      /\ scriptFile \in Path /\ Sent = {scriptFile}
                      /\ script = "remove" <=> op.entries[scriptFile] = NoFile
                      /\ \A p \in Path \ {scriptFile} : tree[p] = manifest[p]
    OBVIOUS
  <2>1. script \in {"push", "remove"} /\ op.entries = tree
    BY <1>1 DEF DsInv, ScriptOp
  <2>2. /\ scriptFile \in Path
        /\ script = "remove" <=> tree[scriptFile] = NoFile
        /\ script = "push" <=> manifest[scriptFile] = NoFile
        /\ \A p \in Path \ {scriptFile} : tree[p] = manifest[p]
    BY <2>1 DEF DsInv, ScriptTree
  <2>3. Sent = {scriptFile}
    BY <2>1, <2>2 DEF Sent
  <2> QED BY <2>1, <2>2, <2>3
<1>6. script' = IF script = "free" THEN "free"
                ELSE IF script = "push" THEN "repush" ELSE "publish"
  <2>1. CASE script = "free"
    BY <1>1, <2>1 DEF Step
  <2>2. CASE script = "push"
    <3>1. ups # {} /\ dels = {}
      BY <1>5, <2>2
    <3> QED BY <1>1, <2>2, <3>1 DEF Step, PushAsserted, Script
  <2>3. CASE script = "remove"
    <3>1. ups = {} /\ dels # {}
      BY <1>5, <2>3
    <3> QED BY <1>1, <2>3, <3>1 DEF Step, PushAsserted, Script
  <2> QED BY <1>5, <2>1, <2>2, <2>3
<1>7. DsType'
  <2>1. astray' \subseteq Path
    BY <1>1, <1>2 DEF DsInv, DsType
  <2> QED
    BY <1>1, <1>2, <1>4, <1>6, <2>1, IdleIs
    DEF DsInv, DsType, ScriptStep, dsServer
<1>8. LateIsAstray'
  BY <1>1, IdleIs DEF DsInv, LateIsAstray, LatePaths
<1>9. ManifestIsNewest'
  BY <1>1, <1>3 DEF ManifestIsNewest, Newest, dsServer
<1>10. ScriptOp' /\ ScriptServer' /\ ScriptTree'
  BY <1>1, <1>5, <1>6, IdleIs
  DEF DsInv, ScriptOp, ScriptServer, ScriptTree, dsServer, dsRest
<1> QED
  BY <1>1, <1>4, <1>7, <1>8, <1>9, <1>10, IdleIs
  DEF DsInv, CloneIsNewest, PushIsNewest

LEMMA EditKeeps ==
  ASSUME DsInv, NEW p \in Path, NEW c \in Content \cup {NoFile}, Edit(p, c)
  PROVE  DsInv'
<1> DEFINE o == IF op.at = "clone" THEN [op EXCEPT !.stray = @ \cup {p}]
                ELSE op
<1>1. /\ script = "free" /\ tree' = [tree EXCEPT ![p] = c] /\ op' = o
      /\ pushGap' = {}
      /\ UNCHANGED <<dsServer, manifest, localStatus, dsLate, dsFails, astray,
                     script, scriptFile>>
  BY DEF Edit
<1>2. /\ o \in OpRecord /\ o.at = op.at /\ o.version = op.version
      /\ o.uploads = op.uploads /\ o.deletes = op.deletes
      /\ o.entries = op.entries
      /\ o.stray = IF op.at = "clone" THEN op.stray \cup {p} ELSE op.stray
  BY DEF DsInv, DsType, OpRecord
<1> HIDE DEF o
<1>3. tree' \in DsFilesType /\ \A q \in Path \ {p} : tree'[q] = tree[q]
  BY <1>1 DEF DsInv, DsType, DsFilesType
<1>4. DsType'
  BY <1>1, <1>2, <1>3 DEF DsInv, DsType, dsServer
<1>5. CloneIsNewest'
  BY <1>1, <1>2, <1>3 DEF DsInv, CloneIsNewest, Newest, dsServer
<1> QED
  BY <1>1, <1>2, <1>4, <1>5
  DEF DsInv, LateIsAstray, LatePaths, ManifestIsNewest, PushIsNewest, Newest,
      ScriptOp, ScriptServer, ScriptTree, dsServer

LEMMA ScriptEditsKeep ==
  ASSUME DsInv, NEW p \in Path, ScriptEdits(p)
  PROVE  DsInv'
<1>1. /\ op = IdleOp /\ script \in {"add", "unlink"}
      /\ UNCHANGED <<dsServer, manifest, localStatus, op, dsLate, dsEdits,
                     dsFails, astray, pushGap>>
  BY DEF ScriptEdits
<1>2. /\ tree' \in DsFilesType
      /\ \A q \in Path \ {p} : tree'[q] = tree[q]
      /\ script' = IF script = "add" THEN "push" ELSE "remove"
      /\ scriptFile' = p
      /\ script = "unlink" => p = scriptFile
      /\ script = "unlink" <=> tree'[p] = NoFile
      /\ script = "add" => Newest(p) = NoFile
  <2>1. CASE script = "add"
    <3>1. PICK c \in Content : tree' = [tree EXCEPT ![p] = c]
      BY <2>1 DEF ScriptEdits
    <3>2. /\ Newest(p) = NoFile /\ script' = "push" /\ scriptFile' = p
      BY <2>1 DEF ScriptEdits, Newest
    <3> QED
      BY <2>1, <3>1, <3>2, DatasetAssumption DEF DsInv, DsType, DsFilesType
  <2>2. CASE script = "unlink"
    <3>1. /\ tree' = [tree EXCEPT ![p] = NoFile] /\ p = scriptFile
          /\ script' = "remove" /\ scriptFile' = scriptFile
      BY <2>2 DEF ScriptEdits
    <3> QED BY <2>2, <3>1 DEF DsInv, DsType, DsFilesType
  <2> QED BY <1>1, <2>1, <2>2
<1>3. DsType'
  BY <1>1, <1>2 DEF DsInv, DsType, ScriptStep, dsServer
<1>4. ScriptTree'
  <2>1. script = "add" => manifest[p] = NoFile
                          /\ \A q \in Path : tree[q] = manifest[q]
    BY <1>2 DEF DsInv, ScriptTree
  <2>2. script = "unlink" => /\ manifest[p] # NoFile
                             /\ \A q \in Path \ {p} : tree[q] = manifest[q]
    BY <1>2 DEF DsInv, ScriptTree
  <2> QED BY <1>1, <1>2, <2>1, <2>2 DEF ScriptTree
<1>5. ScriptServer' /\ ScriptOp'
  BY <1>1, <1>2, IdleIs DEF DsInv, ScriptServer, ScriptOp, dsServer
<1> QED
  BY <1>1, <1>3, <1>4, <1>5, IdleIs
  DEF DsInv, LateIsAstray, LatePaths, ManifestIsNewest, CloneIsNewest,
      PushIsNewest, Newest, dsServer

LEMMA FailsKeep ==
  ASSUME DsInv, Fails
  PROVE  DsInv'
<1>1. /\ op' = IdleOp /\ astray' = astray \cup LatePaths'
      /\ UNCHANGED <<dsServer, dsEdits, pushGap, scriptFile>>
  BY DEF Fails
<1>2. dsLate' \subseteq Path \X (Content \cup {NoFile})
  <2>1. CASE dsLate' = dsLate
    BY <2>1 DEF DsInv, DsType
  <2>2. ASSUME NEW p \in op.uploads,
               dsLate' = dsLate \cup {<<p, op.entries[p]>>}
        PROVE  dsLate' \subseteq Path \X (Content \cup {NoFile})
    <3>1. p \in Path /\ op.entries[p] \in Content \cup {NoFile}
      BY DEF DsInv, DsType, OpRecord, DsFilesType
    <3> QED BY <2>2, <3>1 DEF DsInv, DsType
  <2> QED BY <2>1, <2>2 DEF Fails
<1>3. LatePaths' \subseteq Path
  BY <1>2 DEF LatePaths
<1>4. CASE script = "free"
  <2>1. UNCHANGED <<clone, script>>
    BY <1>4 DEF Fails
  <2>2. DsType'
    BY <1>1, <1>2, <1>3, <2>1, IdleIs DEF DsInv, DsType, dsServer, clone
  <2> QED
    BY <1>1, <1>4, <2>1, <2>2, IdleIs
    DEF DsInv, LateIsAstray, ManifestIsNewest, CloneIsNewest, PushIsNewest,
        Newest, ScriptOp, ScriptServer, ScriptTree, dsServer, clone
<1>5. CASE script # "free"
  <2>1. /\ tree' = NoFiles /\ manifest' = NoFiles /\ localStatus' = "none"
        /\ script' = "clone"
    BY <1>5 DEF Fails
  <2>2. DsType'
    BY <1>1, <1>2, <1>3, <2>1, IdleIs
    DEF DsInv, DsType, DsStatus, ScriptStep, dsServer
  <2> QED
    BY <1>1, <2>1, <2>2, IdleIs
    DEF DsInv, LateIsAstray, ManifestIsNewest, CloneIsNewest, PushIsNewest,
        ScriptOp, ScriptServer, ScriptTree
<1> QED BY <1>4, <1>5

LEMMA LateUploadKeeps ==
  ASSUME DsInv, NEW p \in Path, NEW c \in Content, LateUpload(p, c)
  PROVE  DsInv'
<1>1. /\ <<p, c>> \in dsLate /\ dsLate' \subseteq dsLate /\ pushGap' = {}
      /\ dsFiles' = [dsFiles EXCEPT ![dsVersion][p] = c]
      /\ UNCHANGED <<dsVersion, dsOpen, clone, op, dsRest, astray, script>>
  BY DEF LateUpload
<1>2. p \in LatePaths /\ LatePaths' \subseteq LatePaths
  BY <1>1 DEF LatePaths
<1>3. /\ dsFiles' \in [1 .. MaxVersion -> DsFilesType]
      /\ Newest(p)' = c /\ c # NoFile
      /\ \A q \in Path \ {p} : Newest(q)' = Newest(q)
      /\ \A v \in 1 .. MaxVersion, q \in Path \ {p} :
           dsFiles'[v][q] = dsFiles[v][q]
  BY <1>1, WriteIs, DatasetAssumption
<1>4. DsType'
  BY <1>1, <1>3 DEF DsInv, DsType, clone
<1>5. CloneIsNewest'
  <2> SUFFICES ASSUME op.at = "clone" PROVE CloneIsNewest'
    BY <1>1 DEF CloneIsNewest
  <2>1. op.version \in 1 .. MaxVersion /\ p \in op.stray
    BY <1>2, DatasetAssumption
    DEF DsInv, DsType, CloneIsNewest, LateIsAstray
  <2> QED BY <1>1, <1>3, <2>1 DEF DsInv, CloneIsNewest, clone
<1>6. PushIsNewest' /\ ManifestIsNewest'
  BY <1>1, <1>2, <1>3
  DEF DsInv, PushIsNewest, ManifestIsNewest, LateIsAstray, clone
<1>7. \A q \in Path : Newest(q)' = NoFile => Newest(q) = NoFile
  BY <1>3
<1>8. ScriptServer' /\ ScriptTree'
  BY <1>1, <1>7 DEF DsInv, ScriptServer, ScriptTree, clone, dsRest
<1>9. ScriptOp'
  <2>1. op \in OpRecord
    BY DEF DsInv, DsType
  <2>2. \A q \in op.uploads \cup op.deletes : q \in Path
    BY <2>1 DEF OpRecord
  <2>3. StatusOf(dsVersion)' = StatusOf(dsVersion)
    BY <1>1 DEF StatusOf
  <2> QED
    BY <1>1, <1>7, <2>2, <2>3 DEF DsInv, ScriptOp, clone
<1> QED
  BY <1>1, <1>2, <1>4, <1>5, <1>6, <1>8, <1>9 DEF DsInv, LateIsAstray

LEMMA DatasetNextInv == DsInv /\ [DatasetNext]_dsVars => DsInv'
<1> SUFFICES ASSUME DsInv, [DatasetNext]_dsVars PROVE DsInv'
  OBVIOUS
<1>1. CASE CloneStart("last") \/ CloneStart("latest")
  BY <1>1, CloneStartKeeps
<1>2. ASSUME NEW p \in Path,
             CloneFile(p) \/ Upload(p) \/ DeletePath(p) \/ ScriptEdits(p)
      PROVE  DsInv'
  BY <1>2, CloneFileKeeps, UploadPathKeeps, DeletePathKeeps, ScriptEditsKeep
<1>3. CASE \/ CloneWrites \/ Draft \/ UpdateLocal \/ Publish \/ PushStart
           \/ RequireDraft \/ PushReturns \/ Fails \/ Others
  BY <1>3, CloneWritesKeeps, DraftKeeps, UpdateLocalKeeps, PublishKeeps,
     PushStartKeeps, RequireDraftKeeps, PushReturnsKeeps, FailsKeep, OthersKeep
<1>4. CASE \E step \in {"draft", "publish", "refuse"} : Refuses(step)
  BY <1>4, RefusesKeep
<1>5. CASE \E p \in Path, c \in Content \cup {NoFile} : Edit(p, c)
  BY <1>5, EditKeeps
<1>6. CASE \E p \in Path, c \in Content : LateUpload(p, c)
  BY <1>6, LateUploadKeeps
<1>7. CASE UNCHANGED dsVars
  <2>1. DsType'
    BY <1>7 DEF dsVars, DsInv, DsType
  <2> QED
    BY <1>7, <2>1
    DEF dsVars, DsInv, LateIsAstray, LatePaths, ManifestIsNewest,
        CloneIsNewest, PushIsNewest, Newest, ScriptOp, ScriptServer,
        ScriptTree, StatusOf
<1> QED
  BY <1>1, <1>2, <1>3, <1>4, <1>5, <1>6, <1>7 DEF DatasetNext

\* Inductive: where nothing is astray, the manifest is the newest version, and
\* the tree, the draft and what is left to send add up.
THEOREM DatasetInvariant == DatasetSpec => []DsInv
BY DatasetInitInv, DatasetNextInv, PTL DEF DatasetSpec

\* What differs after a push was sent by an earlier one that stopped, came
\* late, was edited during the clone or cloned from an older version: never a
\* path this push or one since has sent.
THEOREM GapsAreExplained == DatasetSpec => []PushGapIsExplained
<1>1. DsInv => PushGapIsExplained
  BY DEF DsInv, PushGapIsExplained
<1> QED BY DatasetInvariant, <1>1, PTL

\* No assertion of the example fails, wherever earlier runs of it died.
THEOREM TheScriptPasses == DatasetSpec => []ScriptNeverFails
<1>1. DsInv => ScriptNeverFails
  BY DEF DsInv, DsType, ScriptStep, ScriptNeverFails
<1> QED BY DatasetInvariant, <1>1, PTL
==============================================================================

------------------------------- MODULE Joy_proofs ------------------------------
(***************************************************************************)
(* What TLAPS proves of Joy, for a ring and an input queue of any size:    *)
(* the handshake gives the serial interface to one thread at a time, a     *)
(* sample being written is not one being read, and each press is reported. *)
(***************************************************************************)
EXTENDS Joy, TLAPS

\* Where the handshake is: one request or its answer is under way while the main
\* thread waits and none otherwise, and the count of disables says whose turn it is.
Handshake ==
  /\ OneAnswerPerRequest
  /\ main \in {"game", "take", "scan"} => disableCount = 0
  /\ main = "waitOff" => disableCount = disRep
  /\ main \in {"off", "query", "done"} => disableCount = 1
  /\ main = "waitOn" => disableCount = enReq

\* Where the one message of the serial interface is: with the main thread, on its way
\* to the next poll, or taken by the poll that is going on.
OneMessage ==
  /\ disableCount = 1 => /\ sched = "idle" /\ ~busy
                         /\ input = IF main = "query" THEN 1 ELSE 0
  /\ disableCount = 0 =>
       input = IF sched = "answer" \/ (sched = "idle" /\ busy) THEN 1 ELSE 0
  /\ sched # "idle" => ~busy
  /\ sched = "answer" => checks > 0

IInv == TypeOK /\ Handshake /\ OneMessage

\* Indices stay inside the ring.
LEMMA RingStep ==
  ASSUME NEW i \in Slots PROVE (i + 1) % SampleLen \in Slots
BY JoyAssumption DEF Slots

\* The initial states satisfy the invariant.
LEMMA InitIInv == Init => IInv
<1> SUFFICES ASSUME Init PROVE IInv
  OBVIOUS
<1>1. 0 \in Slots
  BY JoyAssumption DEF Slots
<1>2. /\ samples \in [Slots -> BOOLEAN] /\ pad \in BOOLEAN /\ initDone \in BOOLEAN
      /\ busy \in BOOLEAN /\ pressed \in BOOLEAN
      /\ edge \in BOOLEAN /\ due \in BOOLEAN /\ squeezed \in BOOLEAN
  BY Zenon DEF Init
<1>3. TypeOK
  BY <1>1, <1>2, JoyAssumption DEF Init, TypeOK
<1>4. Handshake /\ OneMessage
  BY DEF Init, Handshake, OneMessage, OneAnswerPerRequest
<1> QED BY <1>3, <1>4 DEF IInv

-------------------------------------------------------------------------------
\* joyPoll serving a request.
LEMMA ServeStep ==
  ASSUME IInv, PollDisable \/ PollEnable PROVE IInv'
<1> USE JoyAssumption
        DEF IInv, TypeOK, Handshake, OneMessage, OneAnswerPerRequest, Posted, Reply
<1>1. CASE PollDisable /\ busy
  <2>1. ~busy' /\ busy' \in BOOLEAN
    BY <1>1, Zenon DEF PollDisable, DrainInput
  <2> QED BY <1>1, <2>1 DEF PollDisable, DrainInput, requests, window, consuming
<1>2. CASE PollDisable /\ ~busy
  BY <1>2 DEF PollDisable, DrainInput, requests, window, consuming
<1>3. CASE PollEnable
  BY <1>3 DEF PollEnable, RestartOnEnable, StartSI, requests, window, consuming
<1> QED BY <1>1, <1>2, <1>3

\* joyPoll taking a sample: it does so only while polling is on.
LEMMA SampleStep ==
  ASSUME IInv, PollRead \/ PollStore \/ PollPublish PROVE IInv'
<1> USE JoyAssumption
        DEF IInv, TypeOK, Handshake, OneMessage, OneAnswerPerRequest,
            requests, window, consuming, si
<1>1. CASE PollRead
  <2>1. NextSlot \in Slots
    BY RingStep DEF NextSlot
  <2>2. ~busy' /\ busy' \in BOOLEAN
    BY <1>1, Zenon DEF PollRead
  <2>3. TypeOK'
    BY <1>1, <2>1, <2>2 DEF PollRead
  <2>4. Handshake' /\ OneMessage'
    BY <1>1, <2>2 DEF PollRead, PollingOn
  <2> QED BY <2>3, <2>4
<1>2. CASE PollStore
  BY <1>2 DEF PollStore
<1>3. CASE PollPublish
  BY <1>3 DEF PollPublish
<1> QED BY <1>1, <1>2, <1>3

\* The status queries and the next read of the same poll.
LEMMA QueryStep ==
  ASSUME IInv, PollQuery \/ PollAnswer \/ PollRestart PROVE IInv'
<1> USE JoyAssumption
        DEF IInv, TypeOK, Handshake, OneMessage, OneAnswerPerRequest,
            requests, window, consuming, StartSI, Posted
<1>1. CASE PollQuery
  BY <1>1 DEF PollQuery
<1>2. CASE PollAnswer
  BY <1>2 DEF PollAnswer
<1>3. CASE PollRestart
  BY <1>3 DEF PollRestart
<1> QED BY <1>1, <1>2, <1>3

\* The main thread asking for the serial interface, using it and giving it back.
LEMMA RequestStep ==
  ASSUME IInv, Requests PROVE IInv'
<1> USE JoyAssumption
        DEF IInv, TypeOK, Handshake, OneMessage, OneAnswerPerRequest,
            window, consuming, polling, si, requests, StartSI, Posted
<1>1. CASE Disable
  BY <1>1 DEF Disable
<1>2. CASE DisableReturns
  BY <1>2 DEF DisableReturns
<1>3. CASE FirstCheck
  BY <1>3 DEF FirstCheck
<1>4. CASE Query
  BY <1>4 DEF Query
<1>5. CASE QueryReturns
  BY <1>5 DEF QueryReturns
<1>6. CASE Enable
  BY <1>6 DEF Enable
<1>7. CASE EnableReturns
  BY <1>7 DEF EnableReturns
<1> QED BY <1>1, <1>2, <1>3, <1>4, <1>5, <1>6, <1>7 DEF Requests

\* The main thread consuming samples.
LEMMA ConsumeStep ==
  ASSUME IInv, Consume \/ Take \/ Scan PROVE IInv'
<1> USE JoyAssumption
        DEF IInv, TypeOK, Handshake, OneMessage, OneAnswerPerRequest,
            window, consuming, polling, si, requests
<1>1. CASE Consume
  BY <1>1 DEF Consume
<1>2. CASE Take
  <2>1. FirstNew \in Slots
    BY RingStep DEF FirstNew
  <2> QED BY <1>2, <2>1 DEF Take
<1>3. CASE Scan
  <2>1. (at + 1) % SampleLen \in Slots
    BY RingStep
  <2>2. pressed' \in BOOLEAN
    BY <1>3 DEF Scan
  <2> QED BY <1>3, <2>1, <2>2 DEF Scan
<1> QED BY <1>1, <1>2, <1>3

\* Every step keeps the invariant.
LEMMA NextIInv == IInv /\ [Next]_vars => IInv'
<1> SUFFICES ASSUME IInv, [Next]_vars PROVE IInv'
  OBVIOUS
<1>1. CASE UNCHANGED vars
  BY <1>1 DEF vars, IInv, TypeOK, Handshake, OneMessage, OneAnswerPerRequest,
              window, consuming, polling, si, requests
<1>2. CASE Next
  BY <1>2, ServeStep, SampleStep, QueryStep, RequestStep, ConsumeStep
     DEF Next, Poll, Game
<1> QED BY <1>1, <1>2

\* It always holds.
LEMMA Invariance == Spec => []IInv
BY InitIInv, NextIInv, PTL DEF Spec

-------------------------------------------------------------------------------
(* The ring of samples: where the indices are.                             *)

Succ(i) == (i + 1) % SampleLen
Pred(i) == (i + SampleLen - 1) % SampleLen

\* Ring arithmetic without the remainder.
LEMMA RingIs ==
  /\ \A i \in Slots : /\ Succ(i) = IF i + 1 = SampleLen THEN 0 ELSE i + 1
                      /\ Pred(i) = IF i = 0 THEN SampleLen - 1 ELSE i - 1
                      /\ Succ(i) \in Slots /\ Pred(i) \in Slots
  /\ \A a, b \in Slots : /\ Ahead(a, b) = IF a <= b THEN b - a ELSE b - a + SampleLen
                         /\ Ahead(a, b) \in 0 .. (SampleLen - 1)
<1> DEFINE N == SampleLen
<1>1. N \in Nat \ {0, 1}
  BY JoyAssumption
<1> HIDE DEF N
<1>2. \A x \in 0 .. (2 * N - 1) : x % N = IF x < N THEN x ELSE x - N
  <2> TAKE x \in 0 .. (2 * N - 1)
  <2>1. x < N => x % N = x
    BY <1>1
  <2>2. x >= N => x % N = x - N
    BY <1>1
  <2> QED BY <1>1, <2>1, <2>2
<1>3. ASSUME NEW i \in 0 .. (N - 1)
      PROVE  /\ (i + 1) % N = IF i + 1 = N THEN 0 ELSE i + 1
             /\ (i + N - 1) % N = IF i = 0 THEN N - 1 ELSE i - 1
  <2>1. PICK x : x = i + 1
    OBVIOUS
  <2>2. PICK y : y = i + N - 1
    OBVIOUS
  <2>3. x \in 0 .. (2 * N - 1) /\ y \in 0 .. (2 * N - 1)
    BY <1>1, <2>1, <2>2
  <2>4. /\ x % N = IF x < N THEN x ELSE x - N
        /\ y % N = IF y < N THEN y ELSE y - N
    BY <1>2, <2>3
  <2>5. /\ x % N = IF x = N THEN 0 ELSE x
        /\ y % N = IF i = 0 THEN N - 1 ELSE i - 1
    BY <1>1, <2>1, <2>2, <2>4
  <2> QED BY <2>1, <2>2, <2>5
<1>4. ASSUME NEW a \in 0 .. (N - 1), NEW b \in 0 .. (N - 1)
      PROVE  (b - a + N) % N = IF a <= b THEN b - a ELSE b - a + N
  <2>1. PICK x : x = b - a + N
    OBVIOUS
  <2>2. x \in 0 .. (2 * N - 1)
    BY <1>1, <2>1
  <2>3. x % N = IF x < N THEN x ELSE x - N
    BY <1>2, <2>2
  <2>4. x % N = IF a <= b THEN b - a ELSE b - a + N
    BY <1>1, <2>1, <2>3
  <2> QED BY <2>1, <2>4
<1>5. ASSUME NEW i \in Slots
      PROVE  /\ Succ(i) = IF i + 1 = SampleLen THEN 0 ELSE i + 1
             /\ Pred(i) = IF i = 0 THEN SampleLen - 1 ELSE i - 1
  BY <1>3 DEF Slots, Succ, Pred, N
<1>6. ASSUME NEW a \in Slots, NEW b \in Slots
      PROVE  Ahead(a, b) = IF a <= b THEN b - a ELSE b - a + SampleLen
  BY <1>4 DEF Slots, Ahead, N
<1>7. \A i \in Slots : Succ(i) \in Slots /\ Pred(i) \in Slots
  BY <1>5, JoyAssumption DEF Slots
<1>8. \A a, b \in Slots : Ahead(a, b) \in 0 .. (SampleLen - 1)
  BY <1>6, JoyAssumption DEF Slots
<1> QED BY <1>5, <1>6, <1>7, <1>8

\* The slot after one is a step further from anywhere but from itself, and no other
\* slot is as far; the one before it is a step nearer.
LEMMA RingSteps ==
  ASSUME NEW a \in Slots, NEW b \in Slots
  PROVE  /\ Ahead(a, a) = 0 /\ Ahead(a, Succ(a)) = 1 /\ Pred(Succ(a)) = a
         /\ Succ(b) # a => Ahead(a, Succ(b)) = Ahead(a, b) + 1
         /\ Succ(b) = a => Ahead(a, b) = SampleLen - 1
         /\ \A j \in Slots : Ahead(a, j) = Ahead(a, b) => j = b
<1>1. PICK N : N = SampleLen
  OBVIOUS
<1>2. N \in Nat \ {0, 1} /\ a \in 0 .. (N - 1) /\ b \in 0 .. (N - 1) /\ Slots = 0 .. (N - 1)
  BY <1>1, JoyAssumption DEF Slots
<1>3. PICK x : x = Succ(a)
  OBVIOUS
<1>4. PICK y : y = Succ(b)
  OBVIOUS
<1>5. /\ x = IF a + 1 = N THEN 0 ELSE a + 1
      /\ y = IF b + 1 = N THEN 0 ELSE b + 1
      /\ x \in Slots /\ y \in Slots
  BY <1>1, <1>3, <1>4, RingIs
<1>6. /\ Ahead(a, a) = IF a <= a THEN a - a ELSE a - a + N
      /\ Ahead(a, x) = IF a <= x THEN x - a ELSE x - a + N
      /\ Ahead(a, b) = IF a <= b THEN b - a ELSE b - a + N
      /\ Ahead(a, y) = IF a <= y THEN y - a ELSE y - a + N
  BY <1>1, <1>2, <1>5, RingIs
<1>7. Pred(x) = a
  <2>1. Pred(x) = IF x = 0 THEN N - 1 ELSE x - 1
    BY <1>1, <1>5, RingIs
  <2> QED BY <1>2, <1>5, <2>1
<1>8. Ahead(a, x) = 1
  BY <1>2, <1>5, <1>6
<1>9. (y # a => Ahead(a, y) = Ahead(a, b) + 1) /\ (y = a => Ahead(a, b) = N - 1)
  BY <1>2, <1>5, <1>6
<1>10. Ahead(a, a) = 0
  BY <1>2, <1>6
<1>11. ASSUME NEW j \in Slots, Ahead(a, j) = Ahead(a, b) PROVE j = b
  <2>1. Ahead(a, j) = IF a <= j THEN j - a ELSE j - a + N
    BY <1>1, RingIs
  <2> QED BY <1>2, <1>6, <1>11, <2>1
<1> QED BY <1>1, <1>3, <1>4, <1>7, <1>8, <1>9, <1>11, <1>10

\* Going on from one slot to another, one passes what lies between.
LEMMA RingBetween ==
  ASSUME NEW a \in Slots, NEW b \in Slots, NEW c \in Slots, Ahead(a, b) <= Ahead(a, c)
  PROVE  Ahead(b, c) = Ahead(a, c) - Ahead(a, b)
<1>1. PICK N : N = SampleLen
  OBVIOUS
<1>2. /\ N \in Nat \ {0, 1}
      /\ a \in 0 .. (N - 1) /\ b \in 0 .. (N - 1) /\ c \in 0 .. (N - 1)
  BY <1>1, JoyAssumption DEF Slots
<1>3. /\ Ahead(a, b) = IF a <= b THEN b - a ELSE b - a + N
      /\ Ahead(a, c) = IF a <= c THEN c - a ELSE c - a + N
      /\ Ahead(b, c) = IF b <= c THEN c - b ELSE c - b + N
  BY <1>1, RingIs
<1> QED BY <1>2, <1>3

\* The button goes down in a sample; in one after a up to b; in one from i up to b,
\* seen from a.
Rise(s, i) == s[i] /\ ~s[Pred(i)]
RiseAfter(s, a, b) == \E i \in Slots : Ahead(a, i) \in 1 .. Ahead(a, b) /\ Rise(s, i)
RiseFrom(s, a, i, b) == \E j \in Slots : Ahead(a, j) \in Ahead(a, i) .. Ahead(a, b) /\ Rise(s, j)

\* Writing the slot after the newest sample changes none up to that.
LEMMA RisesKept ==
  ASSUME NEW s \in [Slots -> BOOLEAN], NEW a \in Slots, NEW b \in Slots, Succ(b) # a,
         NEW v, NEW j \in Slots, Ahead(a, j) \in 1 .. Ahead(a, b)
  PROVE  Rise([s EXCEPT ![Succ(b)] = v], j) <=> Rise(s, j)
<1>1. Succ(b) # j /\ Succ(b) # Pred(j) /\ Pred(j) \in Slots
  <2>1. PICK N : N = SampleLen
    OBVIOUS
  <2>2. /\ N \in Nat \ {0, 1}
        /\ a \in 0 .. (N - 1) /\ b \in 0 .. (N - 1) /\ j \in 0 .. (N - 1)
    BY <2>1, JoyAssumption DEF Slots
  <2>3. /\ Ahead(a, b) = IF a <= b THEN b - a ELSE b - a + N
        /\ Ahead(a, j) = IF a <= j THEN j - a ELSE j - a + N
        /\ Succ(b) = IF b + 1 = N THEN 0 ELSE b + 1
        /\ Pred(j) = IF j = 0 THEN N - 1 ELSE j - 1
        /\ Pred(j) \in Slots
    BY <2>1, RingIs
  <2> QED BY <2>2, <2>3
<1> QED BY <1>1 DEF Rise

\* One more sample may be one more press.
LEMMA RiseGrows ==
  ASSUME NEW s, NEW a \in Slots, NEW b \in Slots, Succ(b) # a
  PROVE  RiseAfter(s, a, Succ(b)) <=> RiseAfter(s, a, b) \/ Rise(s, Succ(b))
<1>1. Ahead(a, Succ(b)) = Ahead(a, b) + 1 /\ Succ(b) \in Slots /\ Ahead(a, b) \in Nat
  BY RingIs, RingSteps
<1>2. \A j \in Slots : Ahead(a, j) \in Nat /\ (Ahead(a, j) = Ahead(a, Succ(b)) => j = Succ(b))
  BY <1>1, RingIs, RingSteps
<1>3. \A j \in Slots : Ahead(a, j) \in 1 .. Ahead(a, Succ(b)) <=>
                         Ahead(a, j) \in 1 .. Ahead(a, b) \/ j = Succ(b)
  BY <1>1, <1>2
<1> QED BY <1>1, <1>3, Zenon DEF RiseAfter

\* None are after the last.
LEMMA RiseNone ==
  ASSUME NEW s, NEW a \in Slots
  PROVE  ~RiseAfter(s, a, a)
<1>1. 1 .. Ahead(a, a) = {}
  BY RingSteps
<1> QED BY <1>1 DEF RiseAfter

\* Scanning begins after the last sample seen, and takes one after the other.
LEMMA RiseScan ==
  ASSUME NEW s, NEW a \in Slots, NEW b \in Slots
  PROVE  /\ RiseFrom(s, a, Succ(a), b) <=> RiseAfter(s, a, b)
         /\ RiseFrom(s, a, b, b) <=> Rise(s, b)
         /\ \A i \in Slots : Ahead(a, i) < Ahead(a, b) =>
              (RiseFrom(s, a, i, b) <=> Rise(s, i) \/ RiseFrom(s, a, Succ(i), b))
<1>1. RiseFrom(s, a, Succ(a), b) <=> RiseAfter(s, a, b)
  BY RingSteps DEF RiseFrom, RiseAfter
<1>2. RiseFrom(s, a, b, b) <=> Rise(s, b)
  <2>1. \A j \in Slots : Ahead(a, j) \in Ahead(a, b) .. Ahead(a, b) <=> j = b
    BY RingIs, RingSteps
  <2> QED BY <2>1, Zenon DEF RiseFrom
<1>3. ASSUME NEW i \in Slots, Ahead(a, i) < Ahead(a, b)
      PROVE  RiseFrom(s, a, i, b) <=> Rise(s, i) \/ RiseFrom(s, a, Succ(i), b)
  <2>1. Ahead(a, Succ(i)) = Ahead(a, i) + 1
    <3>1. Succ(i) # a
      BY <1>3, RingIs, RingSteps
    <3> QED BY <3>1, RingSteps
  <2>2. \A j \in Slots : Ahead(a, j) \in Ahead(a, i) .. Ahead(a, b) <=>
                           j = i \/ Ahead(a, j) \in Ahead(a, Succ(i)) .. Ahead(a, b)
    <3>1. \A j \in Slots : Ahead(a, j) = Ahead(a, i) => j = i
      BY RingSteps
    <3>2. Ahead(a, i) \in Nat /\ Ahead(a, b) \in Nat /\ \A j \in Slots : Ahead(a, j) \in Nat
      BY RingIs
    <3> QED BY <1>3, <2>1, <3>1, <3>2
  <2> QED BY <2>2, Zenon DEF RiseFrom
<1> QED BY <1>1, <1>2, <1>3

-------------------------------------------------------------------------------
(* The ring of samples: what is in it.                                     *)

\* The window lies before the newest sample, the slot that is being written lies just
\* after that (or the ring is full), and the scan is inside the window.
RingOrdered ==
  /\ Ahead(curstart, curlast) <= Ahead(curstart, nextlast)
  /\ sched \in {"store", "publish"} =>
       index = nextlast \/ (index = Succ(nextlast) /\ index # curstart)
  /\ sched = "publish" /\ ~squeezed => index # nextlast
  /\ main = "take" => curlast = curstart
  /\ main = "scan" => Ahead(curstart, at) \in 1 .. Ahead(curstart, curlast)

\* What is not yet in the window is in edge, and what the scan has not yet come to
\* makes up the difference between due and pressed.
PressesCounted ==
  ~squeezed =>
    /\ edge <=> RiseAfter(samples, curlast, nextlast)
    /\ main = "scan" => (due <=> pressed \/ RiseFrom(samples, curstart, at, curlast))
    /\ main \notin {"take", "scan"} => (pressed <=> due)

SInv == RingOrdered /\ PressesCounted

\* It holds at the start: nothing has been sampled.
LEMMA InitSInv == Init => SInv
<1> SUFFICES ASSUME Init PROVE SInv
  OBVIOUS
<1>1. 0 \in Slots /\ curstart = 0 /\ curlast = 0 /\ nextlast = 0 /\ ~edge /\ ~due /\ ~pressed
      /\ sched = "idle" /\ main = "game"
  BY JoyAssumption DEF Init, Slots
<1>2. RingOrdered
  BY <1>1, RingSteps DEF RingOrdered
<1>3. ~RiseAfter(samples, curlast, nextlast)
  BY <1>1, RiseNone
<1> QED BY <1>1, <1>2, <1>3 DEF SInv, PressesCounted

\* Steps that have nothing to do with the ring.
Aside ==
  /\ UNCHANGED <<samples, nextlast, curstart, curlast, at, pressed, due, edge, squeezed>>
  /\ sched' \in {"store", "publish"} => sched' = sched /\ index' = index
  /\ main' = main \/ (main' \notin {"take", "scan"} /\ main \notin {"take", "scan"})

\* They keep all of it.
LEMMA AsideSInv == SInv /\ Aside => SInv'
<1> SUFFICES ASSUME SInv, Aside PROVE SInv'
  OBVIOUS
<1>1. RingOrdered'
  BY DEF SInv, Aside, RingOrdered
<1>2. PressesCounted'
  BY DEF SInv, Aside, PressesCounted
<1> QED BY <1>1, <1>2 DEF SInv

\* Those are the handshake and the queries.
LEMMA AsideSteps ==
  \/ PollDisable \/ PollEnable \/ PollQuery \/ PollAnswer \/ PollRestart
  \/ Requests \/ UNCHANGED vars
  => Aside
BY DEF PollDisable, PollEnable, PollQuery, PollAnswer, PollRestart, Requests, Disable,
       DisableReturns, FirstCheck, Query, QueryReturns, Enable, EnableReturns, Aside,
       requests, si, window, consuming, polling, vars

\* The slot is chosen.
LEMMA PollReadSInv == TypeOK /\ SInv /\ PollRead => SInv'
<1> SUFFICES ASSUME TypeOK, SInv, PollRead PROVE SInv'
  OBVIOUS
<1>1. /\ UNCHANGED <<samples, nextlast, curstart, curlast, at, pressed, due, edge, squeezed, main>>
      /\ sched' = "store" /\ index' = NextSlot
  BY DEF PollRead, window, consuming
<1>2. index' = nextlast \/ (index' = Succ(nextlast) /\ index' # curstart)
  BY <1>1 DEF NextSlot, Succ
<1>3. RingOrdered'
  BY <1>1, <1>2 DEF SInv, RingOrdered
<1>4. PressesCounted'
  BY <1>1 DEF SInv, PressesCounted
<1> QED BY <1>3, <1>4 DEF SInv

\* A slot is filled: none that is still to be looked at, unless the ring is full.
LEMMA PollStoreSInv == TypeOK /\ SInv /\ PollStore => SInv'
<1> SUFFICES ASSUME TypeOK, SInv, PollStore PROVE SInv'
  OBVIOUS
<1>1. /\ UNCHANGED <<nextlast, curstart, curlast, at, pressed, due, edge, main, index>>
      /\ sched = "store" /\ sched' = "publish"
      /\ samples' = [samples EXCEPT ![index] = pad]
      /\ squeezed' = (squeezed \/ index = nextlast)
  BY DEF PollStore, window, consuming
<1>2. RingOrdered'
  BY <1>1 DEF SInv, RingOrdered
<1>3. PressesCounted'
  <2> SUFFICES ASSUME ~squeezed' PROVE PressesCounted'
    BY DEF PressesCounted
  <2>1. ~squeezed /\ index # nextlast
    BY <1>1
  <2>2. index = Succ(nextlast) /\ index # curstart
    BY <1>1, <2>1 DEF SInv, RingOrdered
  <2>3. /\ samples \in [Slots -> BOOLEAN]
        /\ nextlast \in Slots /\ curstart \in Slots /\ curlast \in Slots /\ at \in Slots
    BY DEF TypeOK
  <2>4. Succ(nextlast) # curlast
    <3>1. Ahead(curstart, Succ(nextlast)) = Ahead(curstart, nextlast) + 1
      BY <2>2, <2>3, RingSteps
    <3>2. Ahead(curstart, curlast) <= Ahead(curstart, nextlast)
      BY DEF SInv, RingOrdered
    <3> QED BY <2>3, <3>1, <3>2, RingIs
  <2>5. PICK t : t = samples'
    OBVIOUS
  <2>6. t = [samples EXCEPT ![Succ(nextlast)] = pad]
    BY <1>1, <2>2, <2>5
  <2>7. \A j \in Slots : Ahead(curlast, j) \in 1 .. Ahead(curlast, nextlast)
                           => (Rise(t, j) <=> Rise(samples, j))
    BY <2>3, <2>4, <2>6, RisesKept
  <2>8. RiseAfter(t, curlast, nextlast) <=> RiseAfter(samples, curlast, nextlast)
    BY <2>7, Zenon DEF RiseAfter
  <2>9. \A j \in Slots : Ahead(curstart, j) \in 1 .. Ahead(curstart, nextlast)
                           => (Rise(t, j) <=> Rise(samples, j))
    BY <2>2, <2>3, <2>6, RisesKept
  <2>10. ASSUME main = "scan"
         PROVE  RiseFrom(t, curstart, at, curlast) <=> RiseFrom(samples, curstart, at, curlast)
    <3>1. /\ Ahead(curstart, at) \in 1 .. Ahead(curstart, curlast)
          /\ Ahead(curstart, curlast) <= Ahead(curstart, nextlast)
      BY <2>10 DEF SInv, RingOrdered
    <3>2. Ahead(curstart, curlast) \in Nat /\ Ahead(curstart, nextlast) \in Nat
      BY <2>3, RingIs
    <3>3. \A j \in Slots : Ahead(curstart, j) \in Ahead(curstart, at) .. Ahead(curstart, curlast)
                             => (Rise(t, j) <=> Rise(samples, j))
      BY <2>9, <3>1, <3>2
    <3> QED BY <3>3, Zenon DEF RiseFrom
  <2> QED BY <1>1, <2>1, <2>5, <2>8, <2>10 DEF SInv, PressesCounted
<1> QED BY <1>2, <1>3 DEF SInv

\* It is made known: the window that begins next is one sample longer.
LEMMA PollPublishSInv == TypeOK /\ SInv /\ PollPublish => SInv'
<1> SUFFICES ASSUME TypeOK, SInv, PollPublish PROVE SInv'
  OBVIOUS
<1>1. /\ UNCHANGED <<samples, curstart, curlast, at, pressed, due, main, squeezed>>
      /\ sched = "publish" /\ sched' = "check" /\ nextlast' = index
      /\ edge' = (edge \/ (samples[index] /\ ~samples[nextlast]))
  BY DEF PollPublish, window, consuming
<1>2. nextlast \in Slots /\ curstart \in Slots /\ curlast \in Slots
  BY DEF TypeOK
<1>3. index = nextlast \/ (index = Succ(nextlast) /\ index # curstart)
  BY <1>1 DEF SInv, RingOrdered
<1>4. Ahead(curstart, curlast) <= Ahead(curstart, nextlast)
  BY DEF SInv, RingOrdered
<1>5. Ahead(curstart, curlast) <= Ahead(curstart, index)
      /\ (index # nextlast => index # curlast)
  <2>1. index = Succ(nextlast) /\ index # curstart =>
          Ahead(curstart, index) = Ahead(curstart, nextlast) + 1
    BY <1>2, RingSteps
  <2>2. Ahead(curstart, curlast) \in Nat /\ Ahead(curstart, nextlast) \in Nat
    BY <1>2, RingIs
  <2> QED BY <1>3, <1>4, <2>1, <2>2
<1>6. RingOrdered'
  BY <1>1, <1>5 DEF SInv, RingOrdered
<1>7. PressesCounted'
  <2> SUFFICES ASSUME ~squeezed PROVE PressesCounted'
    BY <1>1 DEF PressesCounted
  <2>1. index = Succ(nextlast) /\ index # curlast
    BY <1>1, <1>3, <1>5 DEF SInv, RingOrdered
  <2>2. RiseAfter(samples, curlast, index) <=>
          RiseAfter(samples, curlast, nextlast) \/ Rise(samples, index)
    BY <1>2, <2>1, RiseGrows
  <2>3. Pred(index) = nextlast
    BY <1>2, <2>1, RingSteps
  <2>4. edge' <=> RiseAfter(samples, curlast, index)
    BY <1>1, <2>2, <2>3 DEF SInv, PressesCounted, Rise
  <2> QED BY <1>1, <2>4 DEF SInv, PressesCounted
<1> QED BY <1>6, <1>7 DEF SInv

\* The window begins where it ended.
LEMMA ConsumeSInv == TypeOK /\ SInv /\ Consume => SInv'
<1> SUFFICES ASSUME TypeOK, SInv, Consume PROVE SInv'
  OBVIOUS
<1>1. /\ UNCHANGED <<samples, nextlast, curlast, at, pressed, due, edge, squeezed, sched, index>>
      /\ curstart' = curlast /\ main' = "take"
  BY DEF Consume, polling, consuming
<1>2. nextlast \in Slots /\ curstart \in Slots /\ curlast \in Slots
  BY DEF TypeOK
<1>3. Ahead(curlast, curlast) <= Ahead(curlast, nextlast)
  BY <1>2, RingIs, RingSteps
<1>4. index = Succ(nextlast) /\ index # curstart => index # curlast
  <2>1. index = Succ(nextlast) /\ index # curstart =>
          Ahead(curstart, index) = Ahead(curstart, nextlast) + 1
    BY <1>2, RingSteps
  <2>2. Ahead(curstart, curlast) <= Ahead(curstart, nextlast)
    BY DEF SInv, RingOrdered
  <2>3. Ahead(curstart, curlast) \in Nat /\ Ahead(curstart, nextlast) \in Nat
    BY <1>2, RingIs
  <2> QED BY <2>1, <2>2, <2>3
<1>5. RingOrdered'
  BY <1>1, <1>3, <1>4 DEF SInv, RingOrdered
<1>6. PressesCounted'
  BY <1>1 DEF SInv, PressesCounted
<1> QED BY <1>5, <1>6 DEF SInv

\* It is drawn on to the newest sample.
LEMMA TakeSInv == TypeOK /\ SInv /\ Take => SInv'
<1> SUFFICES ASSUME TypeOK, SInv, Take PROVE SInv'
  OBVIOUS
<1>1. /\ UNCHANGED <<samples, nextlast, curstart, squeezed, sched, index>>
      /\ curlast' = nextlast /\ pressed' = FALSE /\ at' = Succ(curstart)
      /\ main' = IF nextlast = curstart THEN "game" ELSE "scan"
      /\ due' = edge /\ edge' = FALSE /\ curlast = curstart
  BY DEF Take, polling, FirstNew, Succ, SInv, RingOrdered
<1>2. nextlast \in Slots /\ curstart \in Slots
  BY DEF TypeOK
<1>3. nextlast # curstart =>
        Ahead(curstart, Succ(curstart)) \in 1 .. Ahead(curstart, nextlast)
  <2>1. Ahead(curstart, Succ(curstart)) = 1 /\ Ahead(curstart, curstart) = 0
    BY <1>2, RingSteps
  <2>2. Ahead(curstart, nextlast) \in Nat
    BY <1>2, RingIs
  <2>3. nextlast # curstart => Ahead(curstart, nextlast) # 0
    BY <1>2, <2>1, RingSteps
  <2> QED BY <2>1, <2>2, <2>3
<1>4. RingOrdered'
  <2>1. Ahead(curstart, nextlast) <= Ahead(curstart, nextlast)
    BY <1>2, RingIs
  <2> QED BY <1>1, <1>3, <2>1 DEF SInv, RingOrdered
<1>5. PressesCounted'
  <2> SUFFICES ASSUME ~squeezed PROVE PressesCounted'
    BY <1>1 DEF PressesCounted
  <2>1. edge <=> RiseAfter(samples, curstart, nextlast)
    BY <1>1 DEF SInv, PressesCounted
  <2>2. ~RiseAfter(samples, nextlast, nextlast)
    BY <1>2, RiseNone
  <2>3. RiseFrom(samples, curstart, Succ(curstart), nextlast) <=>
          RiseAfter(samples, curstart, nextlast)
    BY <1>2, RiseScan
  <2>4. nextlast = curstart => ~edge
    BY <2>1, <2>2
  <2> QED BY <1>1, <2>1, <2>2, <2>3, <2>4 DEF PressesCounted
<1> QED BY <1>4, <1>5 DEF SInv

\* A sample of it is looked at.
LEMMA ScanSInv == TypeOK /\ SInv /\ Scan => SInv'
<1> SUFFICES ASSUME TypeOK, SInv, Scan PROVE SInv'
  OBVIOUS
<1>1. /\ UNCHANGED <<samples, nextlast, curstart, curlast, squeezed, sched, index, due, edge>>
      /\ pressed' = (pressed \/ Rise(samples, at)) /\ main = "scan"
      /\ at = curlast => main' = "game" /\ at' = at
      /\ at # curlast => main' = "scan" /\ at' = Succ(at)
  BY DEF Scan, polling, window, Rise, Pred, Succ
<1>2. nextlast \in Slots /\ curstart \in Slots /\ curlast \in Slots /\ at \in Slots
  BY DEF TypeOK
<1>3. /\ Ahead(curstart, at) \in 1 .. Ahead(curstart, curlast)
      /\ Ahead(curstart, at) \in Nat /\ Ahead(curstart, curlast) \in Nat
  BY <1>1, <1>2, RingIs DEF SInv, RingOrdered
<1>4. at # curlast => /\ Ahead(curstart, at) < Ahead(curstart, curlast)
                      /\ Ahead(curstart, Succ(at)) = Ahead(curstart, at) + 1
  <2>1. at # curlast => Ahead(curstart, at) # Ahead(curstart, curlast)
    BY <1>2, RingSteps
  <2>2. Succ(at) = curstart => Ahead(curstart, at) = SampleLen - 1
    BY <1>2, RingSteps
  <2>3. Ahead(curstart, curlast) <= SampleLen - 1
    BY <1>2, RingIs, JoyAssumption
  <2>4. Succ(at) # curstart => Ahead(curstart, Succ(at)) = Ahead(curstart, at) + 1
    BY <1>2, RingSteps
  <2> QED BY <1>3, <2>1, <2>2, <2>3, <2>4, JoyAssumption
<1>5. RingOrdered'
  <2>1. main' = "scan" => Ahead(curstart, at') \in 1 .. Ahead(curstart, curlast)
    BY <1>1, <1>3, <1>4
  <2> QED BY <1>1, <2>1 DEF SInv, RingOrdered
<1>6. PressesCounted'
  <2> SUFFICES ASSUME ~squeezed PROVE PressesCounted'
    BY <1>1 DEF PressesCounted
  <2>1. due <=> pressed \/ RiseFrom(samples, curstart, at, curlast)
    BY <1>1 DEF SInv, PressesCounted
  <2>2. at = curlast => (RiseFrom(samples, curstart, at, curlast) <=> Rise(samples, at))
    BY <1>2, RiseScan
  <2>3. at # curlast => (RiseFrom(samples, curstart, at, curlast) <=>
                           Rise(samples, at) \/ RiseFrom(samples, curstart, Succ(at), curlast))
    BY <1>2, <1>4, RiseScan
  <2> QED BY <1>1, <2>1, <2>2, <2>3 DEF SInv, PressesCounted
<1> QED BY <1>5, <1>6 DEF SInv

\* Every step keeps the order of the ring and the count of presses.
LEMMA NextSInv == TypeOK /\ SInv /\ [Next]_vars => SInv'
<1>1. [Next]_vars => \/ PollDisable \/ PollEnable \/ PollQuery \/ PollAnswer \/ PollRestart
                     \/ Requests \/ UNCHANGED vars
                     \/ PollRead \/ PollStore \/ PollPublish \/ Consume \/ Take \/ Scan
  BY DEF Next, Poll, Game
<1> QED BY <1>1, AsideSteps, AsideSInv, PollReadSInv, PollStoreSInv, PollPublishSInv,
           ConsumeSInv, TakeSInv, ScanSInv

\* It always holds.
LEMMA SInvAlways == Spec => []SInv
<1>1. IInv => TypeOK
  BY DEF IInv
<1> QED BY Invariance, <1>1, InitSInv, NextSInv, PTL DEF Spec

-------------------------------------------------------------------------------
\* Every index is a slot of the ring, no queue holds more than its slots and polling is
\* switched off at most once.
THEOREM TypeCorrect == Spec => []TypeOK
<1>1. IInv => TypeOK
  BY DEF IInv
<1> QED BY Invariance, <1>1, PTL

\* Between joyDisablePoll and joyEnablePoll the scheduler keeps out of the serial
\* interface, whenever its retraces come.
THEOREM SerialInterfaceExclusive == Spec => []SerialInterfaceIsMains
<1>1. IInv => SerialInterfaceIsMains
  BY DEF IInv, Handshake, OneMessage, SerialInterfaceIsMains
<1> QED BY Invariance, <1>1, PTL

\* The flag on which joyPoll decides to block is right about the input queue.
THEOREM BusyIsRight == Spec => []BusyMeansAnswered
<1>1. IInv => BusyMeansAnswered
  BY DEF IInv, TypeOK, Handshake, OneMessage, OneAnswerPerRequest, BusyMeansAnswered
<1> QED BY Invariance, <1>1, PTL

\* Requests and answers never pile up in their one slot queues.
THEOREM AnswersMatch == Spec => []OneAnswerPerRequest
<1>1. IInv => OneAnswerPerRequest
  BY DEF IInv, Handshake
<1> QED BY Invariance, <1>1, PTL

\* The slot that is being written is beyond the window the main thread reads, for a
\* ring of any size, unless it was full.
THEOREM WindowIsSafe == Spec => []WindowUntouched
<1>1. TypeOK /\ SInv => WindowUntouched
  <2> SUFFICES ASSUME TypeOK, SInv, sched = "store", index # nextlast
               PROVE  Ahead(curstart, index) > Ahead(curstart, curlast)
    BY DEF WindowUntouched
  <2>1. index = Succ(nextlast) /\ index # curstart
    BY DEF SInv, RingOrdered
  <2>2. Ahead(curstart, index) = Ahead(curstart, nextlast) + 1
    BY <2>1, RingSteps DEF TypeOK
  <2>3. Ahead(curstart, curlast) <= Ahead(curstart, nextlast)
    BY DEF SInv, RingOrdered
  <2>4. Ahead(curstart, curlast) \in Nat /\ Ahead(curstart, nextlast) \in Nat
    BY RingIs DEF TypeOK
  <2> QED BY <2>2, <2>3, <2>4
<1> QED BY TypeCorrect, SInvAlways, <1>1, PTL

\* Each press is reported by the consume that follows it, once, for a ring of any
\* size, as long as that was never full.
THEOREM PressesReported == Spec => []PressReportedOnce
<1>1. TypeOK /\ SInv => PressReportedOnce
  <2> SUFFICES ASSUME TypeOK, SInv, main = "game", ~squeezed PROVE pressed = due
    BY DEF PressReportedOnce
  <2>1. pressed <=> due
    BY DEF SInv, PressesCounted
  <2>2. pressed \in BOOLEAN /\ due \in BOOLEAN
    BY DEF TypeOK
  <2> QED BY <2>1, <2>2, Zenon
<1> QED BY TypeCorrect, SInvAlways, <1>1, PTL
===============================================================================

---------------------------- MODULE SessionProofs ----------------------------
(***************************************************************************)
(* What a host of `fevm serve` knows, proved for any worlds, sizes of      *)
(* requests and of answers, pipes and number of requests.                  *)
(***************************************************************************)
EXTENDS Session, SequenceTheorems, TLAPS

Phases == {"header", "body", "drain", "handle", "send", "exited"}

AnswerType == [to: Nat, status: {DONE, ALLOCATION_FAILED, BAD_REQUEST, NO_SNAPSHOT}, id: Nat,
               world: Worlds, pieces: {1, Pieces}]
Item == [index: Nat, request: Requests]
Sent == [index: Nat, answer: AnswerType]

\* The pieces of a request and of an answer, by index.
Asking(r) == [k \in Nat |-> [index |-> k, request |-> r]]
Telling(a) == [k \in Nat |-> [index |-> k, answer |-> a]]

\* A stretch of pieces, one after another.
Run(seq, from, pieces) == \A i \in 1..Len(seq) : seq[i] = pieces[from + i - 1]

-----------------------------------------------------------------------------
(* Stretches of pieces *)

\* A stretch with its next piece.
Grows(seq, longer, from, pieces) ==
  Run(seq, from, pieces) /\ longer = Append(seq, pieces[from + Len(seq)])

LEMMA RunAdded ==
  ASSUME NEW S, NEW seq \in Seq(S), NEW from \in Nat, NEW pieces \in [Nat -> S], NEW longer,
         Grows(seq, longer, from, pieces)
  PROVE  longer \in Seq(S) /\ Len(longer) = Len(seq) + 1 /\ Run(longer, from, pieces)
<1>1. PICK next \in S : next = pieces[from + Len(seq)]
  OBVIOUS
<1>2. /\ Append(seq, next) \in Seq(S) /\ Len(Append(seq, next)) = Len(seq) + 1
      /\ \A i \in 1..Len(seq) : Append(seq, next)[i] = seq[i]
      /\ Append(seq, next)[Len(seq) + 1] = next
  BY AppendProperties
<1>3. longer = Append(seq, next)
  BY <1>1 DEF Grows
<1>4. ASSUME NEW i \in 1..Len(seq) + 1
      PROVE  longer[i] = pieces[from + i - 1]
  <2>1. CASE i \in 1..Len(seq)
    BY <1>2, <1>3, <2>1 DEF Grows, Run
  <2>2. CASE i = Len(seq) + 1
    <3>1. from + i - 1 = from + Len(seq)
      BY <2>2
    <3> QED BY <1>1, <1>2, <1>3, <2>2, <3>1
  <2> QED BY <2>1, <2>2
<1> QED BY <1>2, <1>3, <1>4 DEF Run

LEMMA RunTaken ==
  ASSUME NEW S, NEW seq \in Seq(S), NEW from \in Nat, NEW pieces \in [Nat -> S],
         Run(seq, from, pieces), seq # <<>>
  PROVE  /\ Head(seq) = pieces[from] /\ Head(seq) \in S
         /\ Tail(seq) \in Seq(S) /\ Len(Tail(seq)) = Len(seq) - 1 /\ Len(seq) >= 1
         /\ Run(Tail(seq), from + 1, pieces)
<1>1. /\ Head(seq) \in S /\ Tail(seq) \in Seq(S) /\ Len(Tail(seq)) = Len(seq) - 1
      /\ Len(seq) \in Nat /\ Len(seq) >= 1 /\ Head(seq) = seq[1]
      /\ \A i \in 1..Len(Tail(seq)) : Tail(seq)[i] = seq[i + 1]
  OBVIOUS
<1>2. Head(seq) = pieces[from]
  BY <1>1 DEF Run
<1>3. ASSUME NEW i \in 1..Len(Tail(seq))
      PROVE  Tail(seq)[i] = pieces[from + 1 + i - 1]
  <2>1. i + 1 \in 1..Len(seq) /\ from + 1 + i - 1 = from + (i + 1) - 1
    BY <1>1
  <2> QED BY <1>1, <2>1 DEF Run
<1> QED BY <1>1, <1>2, <1>3 DEF Run

LEMMA ItemsAre ==
  ASSUME NEW r \in Requests
  PROVE  /\ Asking(r) \in [Nat -> Item]
         /\ \A k \in Nat : Asking(r)[k].index = k /\ Asking(r)[k].request = r
BY DEF Asking, Item

LEMMA SentAre ==
  ASSUME NEW a \in AnswerType
  PROVE  /\ Telling(a) \in [Nat -> Sent]
         /\ \A k \in Nat : Telling(a)[k].index = k /\ Telling(a)[k].answer = a
BY DEF Telling, Sent

-----------------------------------------------------------------------------
(* The invariant *)

SessionType == [world: Worlds, snapshots: Seq(Worlds)]

Types ==
  /\ session \in SessionType /\ phase \in Phases /\ left \in Nat
  /\ data \in Seq(Item) /\ input \in Seq(Item) /\ unwritten \in Seq(Item)
  /\ answer \in AnswerType /\ output \in Seq(Sent)
  /\ asked \in 0..MaxRequests /\ untold \in BOOLEAN

\* What a host knows is what there is.
Agrees(k, s) ==
  /\ k = [world |-> s.world, snapshots |-> k.snapshots]
  /\ DOMAIN k.snapshots = 0..Len(s.snapshots) - 1
  /\ \A id \in 0..Len(s.snapshots) - 1 : k.snapshots[id] = s.snapshots[id + 1]

Told == untold \/ Agrees(known, session)
ToldBy(r) == untold \/ Agrees(learned(r, answer), session)

\* The pieces of a request that the server has not read are in the pipe, in order, and
\* behind them with the host.
Flow(r, read) ==
  /\ Run(input, read, Asking(r)) /\ Run(unwritten, read + Len(input), Asking(r))
  /\ read + Len(input) + Len(unwritten) = r.size + 1

\* The pieces of the answer that the host has not read, of those the server wrote.
Back(written) ==
  Len(output) <= written /\ Run(output, written - Len(output), Telling(answer))

\* Where the request is that has not been answered.
Asked(r) == phase = "header" /\ output = <<>> /\ Flow(r, 0) /\ Told
Reading(r) ==
  /\ phase = "body" /\ output = <<>> /\ Flow(r, 1 + Len(data)) /\ left + Len(data) = r.size
  /\ left > 0 /\ Run(data, 1, Asking(r)) /\ Told
Draining(r) ==
  /\ phase = "drain" /\ output = <<>> /\ left \in 1..r.size /\ Flow(r, r.size + 1 - left)
  /\ answer.status = ALLOCATION_FAILED /\ Told
Handling(r) ==
  /\ phase = "handle" /\ output = <<>> /\ Flow(r, r.size + 1) /\ Len(data) = r.size
  /\ Run(data, 1, Asking(r)) /\ Told
Sending(r) ==
  /\ phase = "send" /\ Flow(r, r.size + 1) /\ left \in 0..answer.pieces /\ Back(left)
  /\ ToldBy(r)
Replied(r) ==
  /\ phase = "header" /\ Flow(r, r.size + 1) /\ output # <<>> /\ Back(answer.pieces + 1)
  /\ ToldBy(r)
Somewhere(r) ==
  Asked(r) \/ Reading(r) \/ Draining(r) \/ Handling(r) \/ Sending(r) \/ Replied(r)

\* An empty request is malformed.
Formed(r) == r.size = 0 => r.command.op = "MALFORMED"

Idle == phase = "header" /\ input = <<>> /\ output = <<>> /\ unwritten = <<>> /\ Told
Busy == \E r \in Requests : open = <<r>> /\ Formed(r) /\ Somewhere(r)

\* The request that is open, with the pipes of a server that has not ended.
InFlight == phase # "exited" => (open = <<>> /\ Idle) \/ Busy

Inv == Types /\ InFlight

-----------------------------------------------------------------------------
(* The host's steps *)

LEMMA RequestFacts ==
  ASSUME NEW r \in Requests
  PROVE  r.size \in Nat /\ r.command \in Commands /\ r.number \in 1..MaxRequests
BY BoundAssumption DEF Requests

LEMMA FrameIsRun ==
  ASSUME NEW r \in Requests
  PROVE  /\ Frame(r) \in Seq(Item) /\ Len(Frame(r)) = r.size + 1
         /\ Run(Frame(r), 0, Asking(r))
<1>1. r.size \in Nat /\ r.size + 1 \in Nat
  BY RequestFacts
<1>2. \A i \in 1..r.size + 1 : [index |-> i - 1, request |-> r] \in Item
  BY <1>1 DEF Item
<1>3. PICK n \in Nat : n = r.size + 1
  BY <1>1
<1>4. Frame(r) = [i \in 1..n |-> [index |-> i - 1, request |-> r]]
  BY <1>3 DEF Frame
<1>5. Frame(r) \in Seq(Item) /\ Len(Frame(r)) = n
  BY <1>2, <1>3, <1>4
<1>6. ASSUME NEW i \in 1..n
      PROVE  Frame(r)[i] = Asking(r)[0 + i - 1]
  BY <1>4 DEF Asking
<1> QED BY <1>3, <1>5, <1>6 DEF Run

LEMMA AskStep ==
  ASSUME Inv, Ask
  PROVE  Inv'
<1>1. /\ open = <<>> /\ asked < MaxRequests /\ asked' = asked + 1
      /\ UNCHANGED <<session, phase, left, data, answer, input, output, known, untold>>
  BY DEF Ask, server, pipes
<1>2. PICK c \in Commands, n \in Sizes :
        /\ n = 0 => c.op = "MALFORMED"
        /\ LET r == [number |-> asked + 1, command |-> c, size |-> n]
           IN open' = Append(open, r) /\ unwritten' = Frame(r)
  BY DEF Ask
<1>3. asked \in 0..MaxRequests /\ MaxRequests \in Nat
  BY BoundAssumption DEF Inv, Types
<1>4. [number |-> asked + 1, command |-> c, size |-> n] \in Requests
  BY <1>1, <1>3 DEF Requests
<1>5. PICK r \in Requests : r = [number |-> asked + 1, command |-> c, size |-> n]
  BY <1>4
<1>6. r.size = n /\ r.command = c
  BY <1>5
<1>7. open' = <<r>> /\ unwritten' = Frame(r)
  BY <1>1, <1>2, <1>5
<1>8. Types'
  BY <1>1, <1>3, <1>7, FrameIsRun DEF Inv, Types
<1>9. CASE phase = "exited"
  BY <1>1, <1>8, <1>9 DEF Inv, InFlight
<1>10. CASE phase # "exited"
  <2>1. phase = "header" /\ input = <<>> /\ output = <<>> /\ Told
    BY <1>1, <1>10 DEF Inv, InFlight, Idle, Busy
  <2>2. Run(input', 0, Asking(r)) /\ Len(input') = 0
    BY <1>1, <2>1 DEF Run
  <2>3. Run(unwritten', 0, Asking(r)) /\ Len(unwritten') = r.size + 1
    BY <1>7, FrameIsRun
  <2>4. Flow(r, 0)'
    BY <2>2, <2>3, RequestFacts DEF Flow
  <2>5. Told'
    BY <1>1, <2>1 DEF Told
  <2>6. Asked(r)' /\ Formed(r)
    BY <1>1, <1>2, <1>6, <2>1, <2>4, <2>5 DEF Asked, Formed
  <2> QED BY <1>7, <1>8, <2>6 DEF Inv, InFlight, Busy, Somewhere
<1> QED BY <1>9, <1>10

LEMMA WriteStep ==
  ASSUME Inv, Write
  PROVE  Inv'
<1>1. /\ unwritten # <<>> /\ input' = Append(input, Head(unwritten))
      /\ unwritten' = Tail(unwritten)
      /\ UNCHANGED <<session, phase, left, data, answer, output, asked, open, known, untold>>
  BY DEF Write, server
<1>2. Types'
  BY <1>1 DEF Inv, Types
<1>3. CASE phase = "exited"
  BY <1>1, <1>2, <1>3 DEF Inv, InFlight
<1>4. CASE phase # "exited"
  <2>1. PICK r \in Requests : open = <<r>> /\ Formed(r) /\ Somewhere(r)
    BY <1>1, <1>4 DEF Inv, InFlight, Idle, Busy
  <2>2. ASSUME NEW read \in Nat, Flow(r, read)
        PROVE  Flow(r, read)'
    <3>1. /\ input \in Seq(Item) /\ unwritten \in Seq(Item) /\ Len(input) \in Nat
          /\ Asking(r) \in [Nat -> Item] /\ r.size \in Nat /\ Len(unwritten) \in Nat
      BY ItemsAre, RequestFacts DEF Inv, Types
    <3>2. PICK n \in Nat : n = read + Len(input)
      BY <3>1
    <3>3. /\ Head(unwritten) = Asking(r)[n] /\ Head(unwritten) \in Item
          /\ Len(Tail(unwritten)) = Len(unwritten) - 1
          /\ Run(Tail(unwritten), n + 1, Asking(r))
      BY <1>1, <2>2, <3>1, <3>2, RunTaken DEF Flow
    <3>4. /\ Len(input') = Len(input) + 1 /\ Run(input', read, Asking(r))
      <4>1. Grows(input, input', read, Asking(r))
        BY <1>1, <2>2, <3>2, <3>3 DEF Flow, Grows
      <4> QED BY <3>1, <4>1, RunAdded
    <3>5. read + Len(input') = n + 1
      BY <3>1, <3>2, <3>4
    <3> QED BY <1>1, <2>2, <3>1, <3>2, <3>3, <3>4, <3>5 DEF Flow
  <2>3. Told' = Told /\ ToldBy(r)' = ToldBy(r) /\ \A n \in Nat : Back(n)' = Back(n)
    BY <1>1 DEF Told, ToldBy, Back, learned
  <2>4. r.size \in Nat /\ Len(data) \in Nat /\ answer.pieces \in Nat
    BY RequestFacts, BoundAssumption DEF Inv, Types, AnswerType
  <2>5. Somewhere(r)'
    <3>1. CASE Asked(r)
      BY <1>1, <2>2, <2>3, <3>1 DEF Asked, Somewhere
    <3>2. CASE Reading(r)
      BY <1>1, <2>2, <2>3, <2>4, <3>2 DEF Reading, Somewhere
    <3>3. CASE Draining(r)
      <4>1. r.size + 1 - left \in Nat
        BY <2>4, <3>3 DEF Draining
      <4> QED BY <1>1, <2>2, <2>3, <3>3, <4>1 DEF Draining, Somewhere
    <3>4. CASE Handling(r)
      BY <1>1, <2>2, <2>3, <2>4, <3>4 DEF Handling, Somewhere
    <3>5. CASE Sending(r)
      BY <1>1, <2>2, <2>3, <2>4, <3>5 DEF Sending, Somewhere
    <3>6. CASE Replied(r)
      BY <1>1, <2>2, <2>3, <2>4, <3>6 DEF Replied, Somewhere
    <3> QED BY <2>1, <3>1, <3>2, <3>3, <3>4, <3>5, <3>6 DEF Somewhere
  <2> QED BY <1>1, <1>2, <2>1, <2>5 DEF Inv, InFlight, Busy
<1> QED BY <1>3, <1>4

\* The server's world, and what the host is told, while neither changes it.
LEMMA ReadStep ==
  ASSUME Inv, Read
  PROVE  Inv'
<1>1. /\ output # <<>> /\ open # <<>> /\ unwritten = <<>> /\ output' = Tail(output)
      /\ UNCHANGED <<session, phase, left, data, answer, input, asked, unwritten, untold>>
  BY DEF Read, server
<1>2. Types'
  BY <1>1 DEF Inv, Types
<1>3. CASE phase = "exited"
  BY <1>1, <1>2, <1>3 DEF Inv, InFlight
<1>4. CASE phase # "exited"
  <2>1. PICK r \in Requests : open = <<r>> /\ Formed(r) /\ Somewhere(r)
    BY <1>1, <1>4 DEF Inv, InFlight, Busy
  <2>2. Sending(r) \/ Replied(r)
    BY <1>1, <2>1 DEF Somewhere, Asked, Reading, Draining, Handling
  <2>3. /\ answer.pieces \in Nat \ {0} /\ output \in Seq(Sent) /\ Len(output) \in Nat
        /\ Telling(answer) \in [Nat -> Sent] /\ left \in Nat /\ answer \in AnswerType
    BY SentAre, BoundAssumption DEF Inv, Types, AnswerType
  <2>4. ASSUME NEW written \in Nat, Back(written)
        PROVE  /\ Head(output).index = written - Len(output) /\ Head(output).answer = answer
               /\ Len(output) \in 1..written /\ Len(output') = Len(output) - 1
               /\ Back(written)'
    <3>0. written - Len(output) \in Nat
      BY <2>3, <2>4 DEF Back
    <3>1. PICK from \in Nat : from = written - Len(output)
      BY <3>0
    <3>2. Run(output, from, Telling(answer))
      BY <2>4, <3>1 DEF Back
    <3>3. /\ Head(output) = Telling(answer)[from] /\ Len(Tail(output)) = Len(output) - 1
          /\ Len(output) >= 1 /\ Run(Tail(output), from + 1, Telling(answer))
      BY <1>1, <2>3, <3>2, RunTaken
    <3>4. Head(output).index = from /\ Head(output).answer = answer
      BY <2>3, <3>3, SentAre
    <3>5. written - Len(output') = from + 1 /\ Len(output') <= written
      BY <1>1, <2>3, <2>4, <3>1, <3>3 DEF Back
    <3> QED BY <1>1, <2>3, <2>4, <3>1, <3>3, <3>4, <3>5 DEF Back
  <2>5. \A n \in Nat : Flow(r, n)' = Flow(r, n)
    BY <1>1 DEF Flow
  <2>6. r.size + 1 \in Nat
    BY RequestFacts
  <2>7. CASE Sending(r)
    <3>0. PICK written \in Nat : written = left /\ Back(written)
      BY <2>3, <2>7 DEF Sending
    <3>5. /\ Head(output).index = written - Len(output) /\ Head(output).answer = answer
          /\ Len(output) \in 1..written /\ Back(written)'
      BY <2>4, <3>0
    <3>6. left \in 0..answer.pieces
      BY <2>7 DEF Sending
    <3>1. Head(output).index < answer.pieces /\ Head(output).answer = answer /\ Back(left)'
      BY <1>1, <2>3, <3>0, <3>5, <3>6
    <3>2. UNCHANGED <<open, known>>
      BY <3>1 DEF Read
    <3>3. ToldBy(r)' = ToldBy(r)
      BY <1>1, <3>2 DEF ToldBy, learned
    <3>4. Sending(r)'
      BY <1>1, <2>5, <2>6, <2>7, <3>1, <3>3 DEF Sending
    <3> QED BY <1>2, <2>1, <3>2, <3>4 DEF Inv, InFlight, Busy, Somewhere
  <2>8. CASE Replied(r)
    <3>1. PICK written \in Nat : written = answer.pieces + 1 /\ Back(written)
      BY <2>3, <2>8 DEF Replied
    <3>2. /\ Head(output).index = written - Len(output) /\ Head(output).answer = answer
          /\ Len(output) \in 1..written /\ Len(output') = Len(output) - 1 /\ Back(written)'
      BY <2>4, <3>1
    <3>3. CASE Len(output) = 1
      <4>1. ~(Head(output).index < answer.pieces)
        BY <2>3, <3>1, <3>2, <3>3
      <4>2. open' = Tail(open) /\ known' = learned(Head(open), Head(output).answer)
        BY <3>2, <4>1 DEF Read
      <4>3. open' = <<>> /\ known' = learned(r, answer)
        BY <2>1, <3>2, <4>2
      <4>4. output' = <<>>
        BY <1>1, <1>2, <3>2, <3>3, EmptySeq DEF Types
      <4>5. Told'
        BY <1>1, <2>8, <4>3 DEF Replied, ToldBy, Told
      <4>6. input = <<>>
        BY <1>1, <2>3, <2>8, EmptySeq, RequestFacts DEF Replied, Flow, Inv, Types
      <4>7. Idle'
        BY <1>1, <2>8, <4>4, <4>5, <4>6 DEF Idle, Replied
      <4> QED BY <1>2, <4>3, <4>7 DEF Inv, InFlight
    <3>4. CASE Len(output) # 1
      <4>1. Head(output).index < answer.pieces
        BY <2>3, <3>1, <3>2, <3>4
      <4>2. UNCHANGED <<open, known>>
        BY <3>2, <4>1 DEF Read
      <4>3. ToldBy(r)' = ToldBy(r)
        BY <1>1, <4>2 DEF ToldBy, learned
      <4>4. output' # <<>>
        BY <2>3, <3>2, <3>4
      <4>5. Replied(r)'
        BY <1>1, <2>5, <2>6, <2>8, <3>1, <3>2, <4>3, <4>4 DEF Replied
      <4> QED BY <1>2, <2>1, <4>2, <4>5 DEF Inv, InFlight, Busy, Somewhere
    <3> QED BY <3>3, <3>4
  <2> QED BY <2>2, <2>7, <2>8
<1> QED BY <1>3, <1>4

\* A host that drops or dies leaves everything where it is.
LEMMA UnchangedKeeps ==
  ASSUME Inv,
         UNCHANGED <<session, phase, left, data, answer, input, output, asked, open, unwritten,
                     known, untold>>
  PROVE  Inv'
<1>1. Types'
  BY DEF Inv, Types
<1>2. /\ Told' = Told /\ \A r \in Requests : ToldBy(r)' = ToldBy(r)
      /\ \A r \in Requests : \A n : Flow(r, n)' = Flow(r, n)
      /\ \A n : Back(n)' = Back(n)
  BY DEF Told, ToldBy, learned, Flow, Back
<1>3. \A r \in Requests : Somewhere(r)' = Somewhere(r)
  BY <1>2 DEF Somewhere, Asked, Reading, Draining, Handling, Sending, Replied
<1>4. Idle' = Idle
  BY <1>2 DEF Idle
<1> QED BY <1>1, <1>3, <1>4 DEF Inv, InFlight, Busy

-----------------------------------------------------------------------------
(* The server's steps *)

\* The server's process ends.
LEMMA ExitStep ==
  ASSUME Inv, InputEnds \/ OutputEnds \/ Trap
  PROVE  Inv'
<1>1. /\ phase' = "exited"
      /\ UNCHANGED <<session, left, data, answer, input, output, untold, asked, unwritten>>
  BY DEF InputEnds, OutputEnds, Trap, Exit, host
<1> QED BY <1>1 DEF Inv, Types, InFlight, Phases

LEMMA ReadHeaderStep ==
  ASSUME Inv, ReadHeader
  PROVE  Inv'
<1>1. /\ phase = "header" /\ input # <<>> /\ input' = Tail(input) /\ data' = <<>>
      /\ UNCHANGED <<session, output, asked, open, unwritten, known, untold>>
      /\ answer' = [NoAnswer EXCEPT !.to = Head(input).request.number,
                                    !.status = ALLOCATION_FAILED]
  BY DEF ReadHeader, host
<1>2. PICK r \in Requests : open = <<r>> /\ Formed(r) /\ Somewhere(r)
  BY <1>1 DEF Inv, InFlight, Idle, Busy
<1>3. r.size \in Nat /\ r.number \in Nat /\ Len(input) \in Nat /\ Len(unwritten) \in Nat
      /\ input \in Seq(Item)
  BY RequestFacts DEF Inv, Types
<1>4. Asked(r)
  <2>1. ~Replied(r)
    <3>1. Len(input) # 0
      BY <1>1, <1>3
    <3> QED BY <1>3, <3>1 DEF Replied, Flow
  <2> QED BY <1>1, <1>2, <2>1 DEF Somewhere, Reading, Draining, Handling, Sending
<1>5. /\ Head(input) = Asking(r)[0] /\ Tail(input) \in Seq(Item) /\ Len(Tail(input)) = Len(input) - 1
      /\ Run(Tail(input), 1, Asking(r))
  <2>1. Run(input, 0, Asking(r)) /\ Asking(r) \in [Nat -> Item]
    BY <1>4, ItemsAre DEF Asked, Flow
  <2>2. /\ Head(input) = Asking(r)[0] /\ Tail(input) \in Seq(Item)
        /\ Len(Tail(input)) = Len(input) - 1 /\ Run(Tail(input), 0 + 1, Asking(r))
    BY <1>1, <1>3, <2>1, RunTaken
  <2> QED BY <2>2
<1>6. Head(input).request = r
  BY <1>5, ItemsAre
<1>7. answer' \in AnswerType /\ answer'.status = ALLOCATION_FAILED /\ answer'.pieces = 1
  BY <1>1, <1>3, <1>6, EmptyAssumption DEF NoAnswer, AnswerType, ALLOCATION_FAILED, DONE
<1>8. Flow(r, 1)'
  <2>1. 1 + Len(input') = 0 + Len(input) /\ 1 + Len(input') + Len(unwritten) = r.size + 1
    BY <1>1, <1>3, <1>4, <1>5 DEF Asked, Flow
  <2> QED BY <1>1, <1>4, <1>5, <2>1 DEF Asked, Flow
<1>9. Told' /\ ToldBy(r)' /\ output' = <<>>
  BY <1>1, <1>4, <1>7 DEF Asked, Told, ToldBy, learned, ALLOCATION_FAILED, DONE
<1>10. data' \in Seq(Item) /\ Len(data') = 0 /\ Run(data', 1, Asking(r))
  BY <1>1 DEF Run
<1>11. ASSUME left' \in Nat, phase' \in Phases PROVE Types'
  BY <1>1, <1>5, <1>7, <1>10, <1>11 DEF Inv, Types
<1>12. \/ left' = r.size /\ phase' = (IF r.size = 0 THEN "handle" ELSE "body")
       \/ left' = r.size /\ phase' = IF left' = 0 THEN "send" ELSE "drain"
       \/ left' = 0 /\ phase' = "exited"
  BY <1>6 DEF ReadHeader, drained
<1>13. CASE left' = r.size /\ phase' = (IF r.size = 0 THEN "handle" ELSE "body")
  <2>1. Types'
    BY <1>3, <1>11, <1>13 DEF Phases
  <2>2. Somewhere(r)'
    <3>1. CASE r.size = 0
      BY <1>8, <1>9, <1>10, <1>13, <3>1 DEF Handling, Somewhere
    <3>2. CASE r.size # 0
      BY <1>3, <1>8, <1>9, <1>10, <1>13, <3>2 DEF Reading, Somewhere
    <3> QED BY <3>1, <3>2
  <2> QED BY <1>1, <1>2, <2>1, <2>2 DEF Inv, InFlight, Busy
<1>14. CASE left' = r.size /\ phase' = IF left' = 0 THEN "send" ELSE "drain"
  <2>1. Types'
    BY <1>3, <1>11, <1>14 DEF Phases
  <2>2. Somewhere(r)'
    <3>1. CASE r.size = 0
      <4>1. Back(left)'
        BY <1>9, <1>14, <3>1 DEF Back, Run
      <4> QED BY <1>7, <1>8, <1>9, <1>14, <3>1, <4>1 DEF Sending, Somewhere
    <3>2. CASE r.size # 0
      <4>1. r.size + 1 - left' = 1
        BY <1>3, <1>14
      <4> QED BY <1>3, <1>7, <1>8, <1>9, <1>14, <3>2, <4>1 DEF Draining, Somewhere
    <3> QED BY <3>1, <3>2
  <2> QED BY <1>1, <1>2, <2>1, <2>2 DEF Inv, InFlight, Busy
<1>15. CASE left' = 0 /\ phase' = "exited"
  BY <1>11, <1>15 DEF Inv, InFlight, Phases
<1> QED BY <1>12, <1>13, <1>14, <1>15

\* A piece of the request that is read next.
LEMMA NextPiece ==
  ASSUME Inv, NEW r \in Requests, NEW read \in Nat, Flow(r, read), input # <<>>,
         input' = Tail(input), UNCHANGED unwritten
  PROVE  /\ Head(input) = Asking(r)[read] /\ Head(input) \in Item /\ input' \in Seq(Item)
         /\ Flow(r, read + 1)'
<1>1. /\ input \in Seq(Item) /\ Len(input) \in Nat /\ Len(unwritten) \in Nat
      /\ Asking(r) \in [Nat -> Item] /\ r.size \in Nat
  BY ItemsAre, RequestFacts DEF Inv, Types
<1>2. Run(input, read, Asking(r))
  BY DEF Flow
<1>3. /\ Head(input) = Asking(r)[read] /\ Head(input) \in Item
      /\ Tail(input) \in Seq(Item) /\ Len(Tail(input)) = Len(input) - 1 /\ Len(input) >= 1
      /\ Run(Tail(input), read + 1, Asking(r))
  BY <1>1, <1>2, RunTaken
<1>4. read + 1 + Len(input') = read + Len(input)
  BY <1>1, <1>3
<1> QED BY <1>1, <1>3, <1>4 DEF Flow

LEMMA ReadBodyStep ==
  ASSUME Inv, ReadBody
  PROVE  Inv'
<1>1. /\ phase = "body" /\ input # <<>> /\ input' = Tail(input)
      /\ data' = Append(data, Head(input)) /\ left' = left - 1
      /\ phase' = (IF left = 1 THEN "handle" ELSE "body")
      /\ UNCHANGED <<session, answer, output, asked, open, unwritten, known, untold>>
  BY DEF ReadBody, at_end, host
<1>2. PICK r \in Requests : open = <<r>> /\ Formed(r) /\ Reading(r)
  BY <1>1 DEF Inv, InFlight, Idle, Busy, Somewhere, Asked, Draining, Handling, Sending, Replied
<1>3. /\ data \in Seq(Item) /\ Len(data) \in Nat /\ left \in Nat /\ left > 0 /\ r.size \in Nat
      /\ left + Len(data) = r.size /\ Asking(r) \in [Nat -> Item]
  BY <1>2, RequestFacts, ItemsAre DEF Inv, Types, Reading
<1>4. PICK read \in Nat : read = 1 + Len(data) /\ Flow(r, read)
  BY <1>2, <1>3 DEF Reading
<1>5. /\ Head(input) = Asking(r)[read] /\ input' \in Seq(Item) /\ Flow(r, read + 1)'
  BY <1>1, <1>4, NextPiece
<1>6. Grows(data, data', 1, Asking(r))
  BY <1>1, <1>2, <1>4, <1>5 DEF Reading, Grows
<1>7. /\ data' \in Seq(Item) /\ Len(data') = Len(data) + 1 /\ Run(data', 1, Asking(r))
  BY <1>3, <1>6, RunAdded
<1>8. Types'
  BY <1>1, <1>3, <1>5, <1>7 DEF Inv, Types, Phases
<1>9. Told' /\ output' = <<>>
  BY <1>1, <1>2 DEF Reading, Told
<1>10. CASE left = 1
  <2>1. read + 1 = r.size + 1 /\ Len(data') = r.size
    BY <1>3, <1>4, <1>7, <1>10
  <2>2. Handling(r)'
    BY <1>1, <1>5, <1>7, <1>9, <1>10, <2>1 DEF Handling
  <2> QED BY <1>1, <1>2, <1>8, <2>2 DEF Inv, InFlight, Busy, Somewhere
<1>11. CASE left # 1
  <2>1. read + 1 = 1 + Len(data') /\ left' + Len(data') = r.size /\ left' > 0
    BY <1>1, <1>3, <1>4, <1>7, <1>11
  <2>2. Reading(r)'
    BY <1>1, <1>5, <1>7, <1>9, <1>11, <2>1 DEF Reading
  <2> QED BY <1>1, <1>2, <1>8, <2>2 DEF Inv, InFlight, Busy, Somewhere
<1> QED BY <1>10, <1>11

LEMMA DrainStep ==
  ASSUME Inv, Drain
  PROVE  Inv'
<1>1. /\ phase = "drain" /\ input # <<>> /\ input' = Tail(input) /\ left' = left - 1
      /\ phase' = (IF left = 1 THEN "send" ELSE "drain")
      /\ UNCHANGED <<session, data, answer, output, asked, open, unwritten, known, untold>>
  BY DEF Drain, at_end, host
<1>2. PICK r \in Requests : open = <<r>> /\ Formed(r) /\ Draining(r)
  BY <1>1 DEF Inv, InFlight, Idle, Busy, Somewhere, Asked, Reading, Handling, Sending, Replied
<1>3. /\ left \in 1..r.size /\ r.size \in Nat /\ answer.pieces \in Nat
  BY <1>2, RequestFacts, BoundAssumption DEF Inv, Types, Draining, AnswerType
<1>4. PICK read \in Nat : read = r.size + 1 - left /\ Flow(r, read)
  <2>1. r.size + 1 - left \in Nat
    BY <1>3
  <2> QED BY <1>2, <2>1 DEF Draining
<1>5. /\ input' \in Seq(Item) /\ Flow(r, read + 1)'
  BY <1>1, <1>4, NextPiece
<1>6. Types'
  BY <1>1, <1>3, <1>5 DEF Inv, Types, Phases
<1>7. Told' /\ output' = <<>> /\ answer'.status = ALLOCATION_FAILED
  BY <1>1, <1>2 DEF Draining, Told
<1>8. CASE left = 1
  <2>1. read + 1 = r.size + 1 /\ left' = 0
    BY <1>1, <1>3, <1>4, <1>8
  <2>2. ToldBy(r)'
    BY <1>7 DEF Told, ToldBy, learned, ALLOCATION_FAILED, DONE
  <2>3. Back(left)'
    BY <1>7, <2>1 DEF Back, Run
  <2>4. Sending(r)'
    BY <1>1, <1>3, <1>5, <1>8, <2>1, <2>2, <2>3 DEF Sending
  <2> QED BY <1>1, <1>2, <1>6, <2>4 DEF Inv, InFlight, Busy, Somewhere
<1>9. CASE left # 1
  <2>1. read + 1 = r.size + 1 - left' /\ left' \in 1..r.size
    BY <1>1, <1>3, <1>4, <1>9
  <2>2. Draining(r)'
    BY <1>1, <1>5, <1>7, <1>9, <2>1 DEF Draining
  <2> QED BY <1>1, <1>2, <1>6, <2>2 DEF Inv, InFlight, Busy, Somewhere
<1> QED BY <1>8, <1>9

LEMMA SendStep ==
  ASSUME Inv, Send
  PROVE  Inv'
<1>1. /\ phase = "send" /\ output' = Append(output, [index |-> left, answer |-> answer])
      /\ \/ left = answer.pieces /\ phase' = "header" /\ left' = 0
         \/ left # answer.pieces /\ phase' = "send" /\ left' = left + 1
      /\ UNCHANGED <<session, data, answer, input, asked, open, unwritten, known, untold>>
  BY DEF Send, host
<1>2. PICK r \in Requests : open = <<r>> /\ Formed(r) /\ Sending(r)
  BY <1>1 DEF Inv, InFlight, Idle, Busy, Somewhere, Asked, Reading, Draining, Handling, Replied
<1>3. /\ output \in Seq(Sent) /\ Len(output) \in Nat /\ left \in 0..answer.pieces
      /\ answer.pieces \in Nat /\ answer \in AnswerType /\ Telling(answer) \in [Nat -> Sent]
      /\ Len(output) <= left /\ left \in Nat
  BY <1>2, SentAre, BoundAssumption DEF Inv, Types, AnswerType, Sending, Back
<1>4. PICK from \in Nat : from = left - Len(output)
  <2>1. left - Len(output) \in Nat
    BY <1>3
  <2> QED BY <2>1
<1>5. Telling(answer)[from + Len(output)] = [index |-> left, answer |-> answer]
  <2>1. from + Len(output) = left
    BY <1>3, <1>4
  <2> QED BY <1>3, <2>1 DEF Telling
<1>6. Grows(output, output', from, Telling(answer))
  BY <1>1, <1>2, <1>4, <1>5 DEF Sending, Back, Grows
<1>7. /\ output' \in Seq(Sent) /\ Len(output') = Len(output) + 1
      /\ Run(output', from, Telling(answer))
  BY <1>3, <1>6, RunAdded
<1>8. Types'
  BY <1>1, <1>3, <1>7 DEF Inv, Types, Phases
<1>9. ASSUME NEW n, n = left + 1
      PROVE  Len(output') <= n /\ Run(output', n - Len(output'), Telling(answer'))
  <2>1. Len(output') <= n /\ n - Len(output') = from
    BY <1>3, <1>4, <1>7, <1>9
  <2> QED BY <1>1, <1>7, <2>1
<1>10. ToldBy(r)' /\ Flow(r, r.size + 1)' /\ output' # <<>>
  <2>1. ToldBy(r)' = ToldBy(r) /\ Flow(r, r.size + 1)' = Flow(r, r.size + 1)
    BY <1>1 DEF ToldBy, learned, Flow
  <2>2. output' # <<>>
    BY <1>3, <1>7
  <2> QED BY <1>2, <2>1, <2>2 DEF Sending
<1>11. CASE left = answer.pieces
  <2>1. Back(answer.pieces + 1)'
    BY <1>1, <1>9, <1>11 DEF Back
  <2>2. Replied(r)'
    BY <1>1, <1>10, <1>11, <2>1 DEF Replied
  <2> QED BY <1>1, <1>2, <1>8, <2>2 DEF Inv, InFlight, Busy, Somewhere
<1>12. CASE left # answer.pieces
  <2>1. Back(left)' /\ left' \in 0..answer.pieces
    BY <1>1, <1>3, <1>9, <1>12 DEF Back
  <2>2. Sending(r)'
    BY <1>1, <1>10, <1>12, <2>1 DEF Sending
  <2> QED BY <1>1, <1>2, <1>8, <2>2 DEF Inv, InFlight, Busy, Somewhere
<1> QED BY <1>11, <1>12

-----------------------------------------------------------------------------
(* What handle does *)

Refusals == {ALLOCATION_FAILED, BAD_REQUEST, NO_SNAPSHOT}

\* What an outcome leaves and reports.
Outcome(o, s, status, id) == o.session = s /\ o.status = status /\ o.id = id

LEMMA KeptIs ==
  ASSUME NEW status
  PROVE  Outcome(Kept(status), session, status, 0)
BY DEF Kept, Outcome

LEMMA LeftIs ==
  ASSUME NEW w, session \in SessionType
  PROVE  Outcome(Left(w), [world |-> w, snapshots |-> session.snapshots], DONE, 0)
<1>1. session = [world |-> session.world, snapshots |-> session.snapshots]
  BY DEF SessionType
<1> QED BY <1>1 DEF Left, Kept, Outcome, SessionType

LEMMA RevertedIs ==
  ASSUME NEW n
  PROVE  Outcome(reverted(n), [world |-> session.snapshots[n + 1],
                               snapshots |-> SubSeq(session.snapshots, 1, n + 1)], DONE, 0)
BY DEF reverted, Kept, Outcome

LEMMA TakenIs ==
  ASSUME session \in SessionType
  PROVE  Outcome(taken, [world |-> session.world,
                         snapshots |-> Append(session.snapshots, session.world)],
                 DONE, Len(session.snapshots))
<1>1. session = [world |-> session.world, snapshots |-> session.snapshots]
  BY DEF SessionType
<1> QED BY <1>1 DEF taken, Kept, Outcome, SessionType

\* What the host learns of an outcome that was sent as it is.
Learns(r, o, a) == a.status = o.status /\ a.id = o.id /\ a.world = o.session.world

LEMMA RefusalTold ==
  ASSUME NEW r, NEW o, NEW a, NEW status \in Refusals, Agrees(known, session),
         Outcome(o, session, status, 0), Learns(r, o, a)
  PROVE  Agrees(learned(r, a), o.session)
BY DEF Refusals, Outcome, Learns, learned, DONE, ALLOCATION_FAILED, BAD_REQUEST, NO_SNAPSHOT

LEMMA WorldTold ==
  ASSUME NEW r, NEW o, NEW a, NEW w, Agrees(known, session),
         r.command.op \in {"SETUP", "TRANSACT"}, Learns(r, o, a),
         Outcome(o, [world |-> w, snapshots |-> session.snapshots], DONE, 0)
  PROVE  Agrees(learned(r, a), o.session)
<1>1. known = [world |-> session.world, snapshots |-> known.snapshots]
  BY DEF Agrees
<1>2. a.status = DONE /\ a.world = w
  BY DEF Outcome, Learns
<1>3. learned(r, a) = [known EXCEPT !.world = w]
  BY <1>2 DEF learned
<1>4. learned(r, a) = [world |-> w, snapshots |-> known.snapshots]
  BY <1>1, <1>3
<1>5. PICK k : k = learned(r, a)
  OBVIOUS
<1>6. k.world = w /\ k.snapshots = known.snapshots
      /\ k = [world |-> w, snapshots |-> k.snapshots]
  BY <1>4, <1>5
<1>7. PICK s : s = o.session
  OBVIOUS
<1>8. s.world = w /\ s.snapshots = session.snapshots
  BY <1>7 DEF Outcome
<1>9. Agrees(k, s)
  BY <1>6, <1>8 DEF Agrees
<1> QED BY <1>5, <1>7, <1>9

LEMMA NothingTold ==
  ASSUME NEW r, NEW o, NEW a, Agrees(known, session), Learns(r, o, a),
         r.command.op \in {"ACCOUNT", "SIMULATE"}, Outcome(o, session, DONE, 0)
  PROVE  Agrees(learned(r, a), o.session)
<1>1. learned(r, a) = known
  BY DEF Outcome, Learns, learned
<1> QED BY <1>1 DEF Outcome

LEMMA SnapshotTold ==
  ASSUME NEW r, NEW o, NEW a, session \in SessionType, Agrees(known, session),
         r.command.op = "SNAPSHOT", Learns(r, o, a),
         Outcome(o, [world |-> session.world,
                     snapshots |-> Append(session.snapshots, session.world)],
                 DONE, Len(session.snapshots))
  PROVE  Agrees(learned(r, a), o.session)
<1>1. known = [world |-> session.world, snapshots |-> known.snapshots]
      /\ DOMAIN known.snapshots = 0..Len(session.snapshots) - 1
      /\ \A id \in 0..Len(session.snapshots) - 1 :
           known.snapshots[id] = session.snapshots[id + 1]
  BY DEF Agrees
<1>2. session.snapshots \in Seq(Worlds) /\ session.world \in Worlds
  BY DEF SessionType
<1>3. PICK n \in Nat : n = Len(session.snapshots)
  BY <1>2
<1>4. a.status = DONE /\ a.id = n
  BY <1>3 DEF Outcome, Learns
<1>5. PICK f : f = [i \in 0..n |-> IF i = n THEN session.world ELSE known.snapshots[i]]
  OBVIOUS
<1>6. learned(r, a) = [known EXCEPT !.snapshots =
                         [i \in DOMAIN known.snapshots \cup {n} |->
                            IF i = n THEN known.world ELSE known.snapshots[i]]]
  BY <1>4 DEF learned
<1>7. DOMAIN known.snapshots \cup {n} = 0..n /\ known.world = session.world
  BY <1>1, <1>3
<1>8. learned(r, a) = [world |-> session.world, snapshots |-> f]
  BY <1>1, <1>5, <1>6, <1>7
<1>9. PICK k : k = learned(r, a)
  OBVIOUS
<1>10. k.world = session.world /\ k.snapshots = f
       /\ k = [world |-> session.world, snapshots |-> k.snapshots]
  BY <1>8, <1>9
<1>11. PICK s : s = o.session
  OBVIOUS
<1>12. s.world = session.world /\ s.snapshots = Append(session.snapshots, session.world)
  BY <1>11 DEF Outcome
<1>13. /\ Len(s.snapshots) = n + 1 /\ s.snapshots[n + 1] = session.world
       /\ \A i \in 1..n : s.snapshots[i] = session.snapshots[i]
  BY <1>2, <1>3, <1>12, AppendProperties
<1>14. DOMAIN k.snapshots = 0..n /\ 0..n = 0..Len(s.snapshots) - 1
  BY <1>3, <1>5, <1>10, <1>13
<1>15. ASSUME NEW id \in 0..n
       PROVE  k.snapshots[id] = s.snapshots[id + 1]
  <2>1. CASE id = n
    BY <1>5, <1>10, <1>13, <2>1
  <2>2. CASE id # n
    <3>1. id \in 0..n - 1 /\ id + 1 \in 1..n
      BY <1>3, <2>2
    <3> QED BY <1>1, <1>3, <1>5, <1>10, <1>13, <2>2, <3>1
  <2> QED BY <2>1, <2>2
<1>16. Agrees(k, s)
  BY <1>10, <1>12, <1>14, <1>15 DEF Agrees
<1> QED BY <1>9, <1>11, <1>16

LEMMA RevertTold ==
  ASSUME NEW r, NEW o, NEW a, session \in SessionType, Agrees(known, session),
         r.command.op = "REVERT", NEW n \in Nat, n = r.command.id,
         n < Len(session.snapshots), Learns(r, o, a),
         Outcome(o, [world |-> session.snapshots[n + 1],
                     snapshots |-> SubSeq(session.snapshots, 1, n + 1)], DONE, 0)
  PROVE  Agrees(learned(r, a), o.session)
<1>1. DOMAIN known.snapshots = 0..Len(session.snapshots) - 1
      /\ \A id \in 0..Len(session.snapshots) - 1 :
           known.snapshots[id] = session.snapshots[id + 1]
  BY DEF Agrees
<1>2. session.snapshots \in Seq(Worlds) /\ Len(session.snapshots) \in Nat
  BY DEF SessionType
<1>3. n \in DOMAIN known.snapshots /\ {i \in DOMAIN known.snapshots : i <= n} = 0..n
  BY <1>1, <1>2
<1>4. a.status = DONE
  BY DEF Outcome, Learns
<1>5. PICK f : f = [i \in 0..n |-> known.snapshots[i]]
  OBVIOUS
<1>6. learned(r, a) = [world |-> known.snapshots[n],
                       snapshots |-> Restrict(known.snapshots,
                                              {i \in DOMAIN known.snapshots : i <= n})]
  BY <1>3, <1>4 DEF learned
<1>7. learned(r, a) = [world |-> known.snapshots[n], snapshots |-> f]
  BY <1>3, <1>5, <1>6 DEF Restrict
<1>8. known.snapshots[n] = session.snapshots[n + 1]
  BY <1>1, <1>2, SMTT(30)
<1>9. PICK k : k = learned(r, a)
  OBVIOUS
<1>10. k.world = session.snapshots[n + 1] /\ k.snapshots = f
       /\ k = [world |-> session.snapshots[n + 1], snapshots |-> k.snapshots]
  BY <1>7, <1>8, <1>9
<1>11. PICK s : s = o.session
  OBVIOUS
<1>12. s.world = session.snapshots[n + 1]
       /\ s.snapshots = SubSeq(session.snapshots, 1, n + 1)
  BY <1>11 DEF Outcome
<1>13. /\ Len(s.snapshots) = n + 1
       /\ \A i \in 1..n + 1 : s.snapshots[i] = session.snapshots[i]
  BY <1>2, <1>12
<1>14. DOMAIN k.snapshots = 0..n /\ 0..n = 0..Len(s.snapshots) - 1
  BY <1>5, <1>10, <1>13
<1>15. ASSUME NEW id \in 0..n
       PROVE  k.snapshots[id] = s.snapshots[id + 1]
  <2>1. id \in 0..Len(session.snapshots) - 1 /\ id + 1 \in 1..n + 1
    BY <1>2
  <2> QED BY <1>1, <1>5, <1>10, <1>13, <2>1
<1>16. Agrees(k, s)
  BY <1>10, <1>12, <1>14, <1>15 DEF Agrees
<1> QED BY <1>9, <1>11, <1>16

LEMMA CommandFacts ==
  ASSUME NEW c \in Commands
  PROVE  /\ c.op \in {"SETUP", "TRANSACT", "ACCOUNT", "SIMULATE", "SNAPSHOT", "MALFORMED", "REVERT"}
         /\ c.world \in Worlds /\ c.id \in Nat
BY EmptyAssumption, BoundAssumption DEF Commands, Ids

\* What an outcome of a command is.
LEMMA OutcomesAre ==
  ASSUME session \in SessionType, NEW c \in Commands, NEW o \in outcomes(c)
  PROVE  \/ \E status \in Refusals : Outcome(o, session, status, 0)
         \/ /\ c.op \in {"SETUP", "TRANSACT"}
            /\ Outcome(o, [world |-> c.world, snapshots |-> session.snapshots], DONE, 0)
         \/ c.op = "TRANSACT" /\ Outcome(o, session, DONE, 0)
         \/ c.op \in {"ACCOUNT", "SIMULATE"} /\ Outcome(o, session, DONE, 0)
         \/ /\ c.op = "SNAPSHOT"
            /\ Outcome(o, [world |-> session.world,
                           snapshots |-> Append(session.snapshots, session.world)],
                       DONE, Len(session.snapshots))
         \/ /\ c.op = "REVERT" /\ c.id < Len(session.snapshots)
            /\ Outcome(o, [world |-> session.snapshots[c.id + 1],
                           snapshots |-> SubSeq(session.snapshots, 1, c.id + 1)], DONE, 0)
<1>1. /\ c.op \in {"SETUP", "TRANSACT", "ACCOUNT", "SIMULATE", "SNAPSHOT", "MALFORMED", "REVERT"}
      /\ c.id \in Nat /\ Len(session.snapshots) \in Nat
  BY CommandFacts DEF SessionType
<1>2. ASSUME NEW status \in Refusals, o = Kept(status)
      PROVE  \E st \in Refusals : Outcome(o, session, st, 0)
  BY <1>2, KeptIs
<1>3. ASSUME o \in Undecoded
      PROVE  \E st \in Refusals : Outcome(o, session, st, 0)
  BY <1>2, <1>3 DEF Undecoded, Refusals
<1>4. o = Kept(DONE) => Outcome(o, session, DONE, 0)
  BY KeptIs
<1>5. o = Left(c.world)
        => Outcome(o, [world |-> c.world, snapshots |-> session.snapshots], DONE, 0)
  BY LeftIs
<1>6. CASE c.op = "MALFORMED"
  <2>1. o = Kept(BAD_REQUEST)
    BY <1>6 DEF outcomes
  <2> QED BY <1>2, <2>1 DEF Refusals
<1>7. CASE c.op = "SETUP"
  <2>1. o = Left(c.world) \/ o = Kept(ALLOCATION_FAILED)
    BY <1>7 DEF outcomes
  <2> QED BY <1>2, <1>5, <1>7, <2>1 DEF Refusals
<1>8. CASE c.op = "ACCOUNT"
  <2>1. o = Kept(DONE)
    BY <1>8 DEF outcomes
  <2> QED BY <1>4, <1>8, <2>1
<1>9. CASE c.op = "TRANSACT"
  <2>1. o = Left(c.world) \/ o = Kept(DONE) \/ o \in Undecoded
    BY <1>9 DEF outcomes
  <2> QED BY <1>3, <1>4, <1>5, <1>9, <2>1
<1>10. CASE c.op = "SIMULATE"
  <2>1. o = Kept(DONE) \/ o \in Undecoded
    BY <1>10 DEF outcomes
  <2> QED BY <1>3, <1>4, <1>10, <2>1
<1>11. CASE c.op = "SNAPSHOT"
  <2>1. o = taken \/ o = Kept(ALLOCATION_FAILED)
    BY <1>11 DEF outcomes
  <2> QED BY <1>2, <1>11, <2>1, TakenIs DEF Refusals
<1>12. CASE c.op = "REVERT"
  <2>1. CASE c.id >= Len(session.snapshots)
    <3>1. o = Kept(NO_SNAPSHOT)
      BY <1>12, <2>1 DEF outcomes
    <3> QED BY <1>2, <3>1 DEF Refusals
  <2>2. CASE c.id < Len(session.snapshots)
    <3>1. ~(c.id >= Len(session.snapshots))
      BY <1>1, <2>2
    <3>2. o = reverted(c.id) \/ o = Kept(ALLOCATION_FAILED)
      BY <1>12, <3>1 DEF outcomes
    <3> QED BY <1>2, <1>12, <2>2, <3>2, RevertedIs DEF Refusals
  <2> QED BY <1>1, <2>1, <2>2
<1> QED BY <1>1, <1>6, <1>7, <1>8, <1>9, <1>10, <1>11, <1>12

LEMMA OutcomeTypes ==
  ASSUME session \in SessionType, NEW c \in Commands, NEW o \in outcomes(c)
  PROVE  /\ o.session \in SessionType /\ o.id \in Nat /\ o.session.world \in Worlds
         /\ o.status \in {DONE} \cup Refusals
<1>1. session.world \in Worlds /\ session.snapshots \in Seq(Worlds) /\ c.world \in Worlds
      /\ Len(session.snapshots) \in Nat /\ c.id \in Nat
  BY CommandFacts DEF SessionType
<1>2. ASSUME NEW s \in SessionType, NEW status \in {DONE} \cup Refusals, NEW n \in Nat,
             Outcome(o, s, status, n)
      PROVE  /\ o.session \in SessionType /\ o.id \in Nat /\ o.session.world \in Worlds
             /\ o.status \in {DONE} \cup Refusals
  BY <1>2 DEF Outcome, SessionType
<1>3. [world |-> c.world, snapshots |-> session.snapshots] \in SessionType
  BY <1>1 DEF SessionType
<1>4. [world |-> session.world, snapshots |-> Append(session.snapshots, session.world)]
        \in SessionType
  BY <1>1 DEF SessionType
<1>5. c.id < Len(session.snapshots) =>
        [world |-> session.snapshots[c.id + 1],
         snapshots |-> SubSeq(session.snapshots, 1, c.id + 1)] \in SessionType
  <2>1. HAVE c.id < Len(session.snapshots)
  <2>2. session.snapshots[c.id + 1] \in Worlds
    BY <1>1, <2>1
  <2>3. SubSeq(session.snapshots, 1, c.id + 1) \in Seq(Worlds)
    BY <1>1, <2>1
  <2> QED BY <2>2, <2>3 DEF SessionType
<1> QED BY <1>1, <1>2, <1>3, <1>4, <1>5, OutcomesAre

LEMMA OutcomeTold ==
  ASSUME session \in SessionType, Agrees(known, session), NEW r, r.command \in Commands,
         NEW o \in outcomes(r.command), NEW a, Learns(r, o, a)
  PROVE  Agrees(learned(r, a), o.session)
<1>1. PICK c \in Commands : c = r.command
  OBVIOUS
<1>2. c.id \in Nat /\ o \in outcomes(c)
  BY <1>1, CommandFacts
<1>3. ASSUME NEW status \in Refusals, Outcome(o, session, status, 0)
      PROVE  Agrees(learned(r, a), o.session)
  BY <1>3, RefusalTold
<1>4. CASE /\ c.op \in {"SETUP", "TRANSACT"}
           /\ Outcome(o, [world |-> c.world, snapshots |-> session.snapshots], DONE, 0)
  BY <1>1, <1>4, WorldTold
<1>5. CASE c.op = "TRANSACT" /\ Outcome(o, session, DONE, 0)
  <2>1. Outcome(o, [world |-> session.world, snapshots |-> session.snapshots], DONE, 0)
    BY <1>5 DEF Outcome, SessionType
  <2> QED BY <1>1, <1>5, <2>1, WorldTold
<1>6. CASE c.op \in {"ACCOUNT", "SIMULATE"} /\ Outcome(o, session, DONE, 0)
  BY <1>1, <1>6, NothingTold
<1>7. CASE /\ c.op = "SNAPSHOT"
           /\ Outcome(o, [world |-> session.world,
                          snapshots |-> Append(session.snapshots, session.world)],
                      DONE, Len(session.snapshots))
  BY <1>1, <1>7, SnapshotTold
<1>8. CASE /\ c.op = "REVERT" /\ c.id < Len(session.snapshots)
           /\ Outcome(o, [world |-> session.snapshots[c.id + 1],
                          snapshots |-> SubSeq(session.snapshots, 1, c.id + 1)], DONE, 0)
  BY <1>1, <1>2, <1>8, RevertTold
<1> QED BY <1>2, <1>3, <1>4, <1>5, <1>6, <1>7, <1>8, OutcomesAre

\* The pieces read are the request's, so what is handled is what was asked.
LEMMA CommandIs ==
  ASSUME Types, NEW r \in Requests, Handling(r)
  PROVE  command \in Commands /\ (command = r.command \/ command.op = "MALFORMED")
<1>1. /\ data \in Seq(Item) /\ Len(data) = r.size /\ r.size \in Nat /\ r.command \in Commands
      /\ Run(data, 1, Asking(r)) /\ Asking(r) \in [Nat -> Item]
      /\ Frame(r) \in Seq(Item) /\ Len(Frame(r)) = r.size + 1 /\ Run(Frame(r), 0, Asking(r))
  BY RequestFacts, ItemsAre, FrameIsRun DEF Types, Handling
<1>2. CASE r.size = 0
  <2>1. data = <<>>
    BY <1>1, <1>2, EmptySeq
  <2>2. [op |-> "MALFORMED", world |-> Empty, id |-> 0] \in Commands
    BY DEF Commands
  <2>3. \E c \in Commands : c.op = "MALFORMED"
    BY <2>2
  <2>4. command = CHOOSE c \in Commands : c.op = "MALFORMED"
    BY <2>1 DEF command
  <2> QED BY <2>3, <2>4
<1>3. CASE r.size # 0
  <2>1. 1 \in 1..Len(data) /\ data # <<>>
    BY <1>1, <1>3
  <2>2. data[1] = Asking(r)[1]
    <3>1. data[1] = Asking(r)[1 + 1 - 1]
      BY <1>1, <2>1 DEF Run
    <3> QED BY <3>1
  <2>3. data[1].request = r
    BY <2>2, ItemsAre
  <2>4. PICK rest : rest = Tail(Frame(r))
    OBVIOUS
  <2>5. Frame(r) # <<>>
    BY <1>1
  <2>6. /\ rest \in Seq(Item) /\ Len(rest) = r.size /\ Run(rest, 0 + 1, Asking(r))
    <3>1. /\ Tail(Frame(r)) \in Seq(Item) /\ Len(Tail(Frame(r))) = Len(Frame(r)) - 1
          /\ Run(Tail(Frame(r)), 0 + 1, Asking(r))
      BY <1>1, <2>5, RunTaken
    <3> QED BY <1>1, <2>4, <3>1
  <2>7. \A i \in 1..Len(data) : data[i] = rest[i]
    <3>1. \A i \in 1..Len(data) : data[i] = Asking(r)[1 + i - 1]
      BY <1>1 DEF Run
    <3>2. \A i \in 1..Len(data) : rest[i] = Asking(r)[1 + i - 1]
      BY <1>1, <2>6 DEF Run
    <3> QED BY <3>1, <3>2
  <2>8. data = rest
    BY <1>1, <2>6, <2>7, SeqEqual
  <2>9. command = r.command
    BY <2>1, <2>3, <2>4, <2>8 DEF command
  <2> QED BY <1>1, <2>9
<1> QED BY <1>2, <1>3

\* An answer sent as it was built, and one for which there is no memory.
LEMMA AnswersAre ==
  ASSUME Types, NEW o, NEW c \in Commands, o \in outcomes(c)
  PROVE  /\ answered(o, TRUE) \in AnswerType /\ (\A r : Learns(r, o, answered(o, TRUE)))
         /\ answered(o, FALSE) \in AnswerType
         /\ answered(o, FALSE).status = ALLOCATION_FAILED
<1>1. answer.to \in Nat /\ session \in SessionType
  BY DEF Types, AnswerType
<1>2. o.id \in Nat /\ o.session.world \in Worlds /\ o.status \in {DONE} \cup Refusals
  BY <1>1, OutcomeTypes
<1>3. PICK n \in {1, Pieces} : n = IF o.status = DONE THEN Pieces ELSE 1
  OBVIOUS
<1>4. PICK a : a = [to |-> answer.to, status |-> o.status, id |-> o.id,
                    world |-> o.session.world, pieces |-> n]
  OBVIOUS
<1>5. answered(o, TRUE) = a
  BY <1>3, <1>4 DEF answered
<1>6. a \in AnswerType /\ \A r : Learns(r, o, a)
  <2>1. o.status \in {DONE, ALLOCATION_FAILED, BAD_REQUEST, NO_SNAPSHOT}
    BY <1>2 DEF Refusals
  <2>2. a \in AnswerType
    BY <1>1, <1>2, <1>4, <2>1 DEF AnswerType
  <2>3. a.status = o.status /\ a.id = o.id /\ a.world = o.session.world
    BY <1>4
  <2> QED BY <2>2, <2>3 DEF Learns
<1>7. PICK f : f = [to |-> answer.to, status |-> ALLOCATION_FAILED, id |-> 0,
                    world |-> Empty, pieces |-> 1]
  OBVIOUS
<1>8. answered(o, FALSE) = f
  BY <1>7 DEF answered, NoAnswer
<1>9. f \in AnswerType /\ f.status = ALLOCATION_FAILED
  BY <1>1, <1>7, EmptyAssumption DEF AnswerType
<1> QED BY <1>5, <1>6, <1>8, <1>9, Zenon

\* An outcome the answer tells, or hides.
LEMMA HandledTold ==
  ASSUME Types, NEW r \in Requests, Handling(r), NEW o \in outcomes(command),
         NEW built \in BOOLEAN, Agrees(known, session)
  PROVE  \/ Agrees(learned(r, answered(o, built)), o.session)
         \/ ~built /\ o.session # session
<1>1. session \in SessionType /\ r.command \in Commands
  BY RequestFacts DEF Types
<1>2. command \in Commands /\ (command = r.command \/ command.op = "MALFORMED")
  BY CommandIs
<1>3. CASE built = TRUE
  <2>1. PICK a : a = answered(o, TRUE)
    OBVIOUS
  <2>2. Learns(r, o, a)
    BY <1>2, <2>1, AnswersAre
  <2>3. CASE command = r.command
    BY <1>1, <1>3, <2>1, <2>2, <2>3, OutcomeTold
  <2>4. CASE command.op = "MALFORMED"
    <3>1. PICK status \in Refusals : Outcome(o, session, status, 0)
      BY <1>1, <1>2, <2>4, OutcomesAre
    <3> QED BY <1>3, <2>1, <2>2, <3>1, RefusalTold
  <2> QED BY <1>2, <2>3, <2>4
<1>4. CASE built = FALSE
  <2>1. PICK a : a = answered(o, FALSE)
    OBVIOUS
  <2>2. a.status = ALLOCATION_FAILED
    BY <1>2, <2>1, AnswersAre
  <2>3. learned(r, a) = known
    BY <2>2 DEF learned, DONE, ALLOCATION_FAILED
  <2> QED BY <1>4, <2>1, <2>3
<1> QED BY <1>3, <1>4

LEMMA HandleStep ==
  ASSUME Inv, handle
  PROVE  Inv'
<1>1. /\ phase = "handle" /\ phase' = "send" /\ left' = 0
      /\ UNCHANGED <<data, input, output, asked, open, unwritten, known>>
  BY DEF handle, pipes, host
<1>2. PICK r \in Requests : open = <<r>> /\ Formed(r) /\ Handling(r)
  BY <1>1 DEF Inv, InFlight, Idle, Busy, Somewhere, Asked, Reading, Draining, Sending, Replied
<1>3. PICK o \in outcomes(command), built \in BOOLEAN :
        /\ session' = o.session /\ answer' = answered(o, built)
        /\ untold' = (untold \/ (~built /\ session' # session))
  BY DEF handle
<1>4. Types /\ command \in Commands /\ session \in SessionType
  BY <1>2, CommandIs DEF Inv, Types
<1>5. answer' \in AnswerType
  BY <1>3, <1>4, AnswersAre
<1>6. session' \in SessionType
  BY <1>3, <1>4, OutcomeTypes
<1>7. untold' \in BOOLEAN
  BY <1>3, <1>4 DEF Types
<1>8. Types'
  BY <1>1, <1>4, <1>5, <1>6, <1>7 DEF Types, Phases
<1>9. untold' \/ Agrees(learned(r, answered(o, built)), o.session)
  <2>1. untold \/ Agrees(known, session)
    BY <1>2 DEF Handling, Told
  <2>2. CASE untold
    BY <1>3, <2>2
  <2>3. CASE Agrees(known, session)
    BY <1>2, <1>3, <1>4, <2>3, HandledTold
  <2> QED BY <2>1, <2>2, <2>3
<1>10. ToldBy(r)'
  <2>1. learned(r, answer)' = learned(r, answered(o, built))
    BY <1>1, <1>3 DEF learned
  <2> QED BY <1>3, <1>9, <2>1 DEF ToldBy
<1>11. /\ output' = <<>> /\ Flow(r, r.size + 1)' /\ r.size \in Nat
       /\ answer'.pieces \in Nat
  <2>1. Flow(r, r.size + 1)' = Flow(r, r.size + 1)
    BY <1>1 DEF Flow
  <2>2. answer'.pieces \in Nat
    BY <1>5, BoundAssumption DEF AnswerType
  <2> QED BY <1>1, <1>2, <2>1, <2>2, RequestFacts DEF Handling
<1>12. Back(left)'
  BY <1>1, <1>11 DEF Back, Run
<1>13. Sending(r)'
  BY <1>1, <1>10, <1>11, <1>12 DEF Sending
<1> QED BY <1>1, <1>2, <1>8, <1>13 DEF Inv, InFlight, Busy, Somewhere

-----------------------------------------------------------------------------
(* The specification *)

LEMMA InitInv == Init => Inv
<1> SUFFICES ASSUME Init PROVE Inv
  OBVIOUS
<1>1. NoAnswer \in AnswerType
  BY EmptyAssumption DEF NoAnswer, AnswerType, DONE
<1>2. session \in SessionType
  BY EmptyAssumption DEF Init, SessionType
<1>3. Types
  <2>1. 0 \in 0..MaxRequests
    BY BoundAssumption
  <2>2. <<>> \in Seq(Item) /\ <<>> \in Seq(Sent)
    OBVIOUS
  <2> QED BY <1>1, <1>2, <2>1, <2>2 DEF Init, Types, Phases
<1>4. Agrees(known, session)
  <2>1. DOMAIN << >> = {} /\ Len(<< >>) = 0 /\ 0..0 - 1 = {}
    OBVIOUS
  <2>2. known.snapshots = <<>> /\ session.snapshots = <<>> /\ session.world = Empty
        /\ known = [world |-> Empty, snapshots |-> known.snapshots]
    BY DEF Init
  <2> QED BY <2>1, <2>2 DEF Agrees
<1> QED BY <1>3, <1>4 DEF Init, Inv, InFlight, Idle, Told

LEMMA NextInv == Inv /\ [Next]_vars => Inv'
<1> SUFFICES ASSUME Inv, [Next]_vars PROVE Inv'
  OBVIOUS
<1>1. CASE Host
  <2>1. CASE Drop \/ Die
    BY <2>1, UnchangedKeeps DEF Drop, Die, server, host
  <2> QED BY <1>1, <2>1, AskStep, WriteStep, ReadStep DEF Host
<1>2. CASE Server
  BY <1>2, ExitStep, ReadHeaderStep, ReadBodyStep, DrainStep, SendStep, HandleStep DEF Server
<1>3. CASE UNCHANGED vars
  BY <1>3, UnchangedKeeps DEF vars, server, pipes, host
<1> QED BY <1>1, <1>2, <1>3 DEF Next

\* The pieces of the one open request, and of its answer, are in the pipes or with
\* their writers, in order; and the host knows, or the answer tells it, what the
\* server holds, unless an answer hid a change.
THEOREM Inductive == Spec => []Inv
<1>1. Init => Inv
  BY InitInv
<1>2. Inv /\ [Next]_vars => Inv'
  BY NextInv
<1> QED BY <1>1, <1>2, PTL DEF Spec

\* Session's invariant HostKnows: between requests, a host told of every change knows
\* the served world and each of its snapshots (session.fe, handle and answer; the
\* client's lib.rs, which records them).
THEOREM HostKnowsTheWorld == Spec => []HostKnows
<1>1. Inv => HostKnows
  <2> SUFFICES ASSUME Inv, open = <<>>, phase = "header", ~untold
               PROVE  /\ known.world = session.world
                      /\ \A id \in DOMAIN known.snapshots :
                           /\ id < Len(session.snapshots)
                           /\ session.snapshots[id + 1] = known.snapshots[id]
    BY DEF HostKnows
  <2>1. Agrees(known, session)
    BY DEF Inv, InFlight, Busy, Idle, Told
  <2>2. Len(session.snapshots) \in Nat
    BY DEF Inv, Types, SessionType
  <2>3. known.world = session.world
    BY <2>1 DEF Agrees
  <2> QED BY <2>1, <2>2, <2>3 DEF Agrees
<1> QED BY <1>1, Inductive, PTL
=============================================================================

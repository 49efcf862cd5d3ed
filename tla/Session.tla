------------------------------ MODULE Session ------------------------------
(***************************************************************************)
(* `fevm serve` (ingots/evm/src/session.fe) and a host that drives it over *)
(* two pipes: frames written and read piece by piece, bounded pipes,       *)
(* allocations that fail at every step, a host that closes or dies.  The   *)
(* host is the client of native/client/src/lib.rs, which reads an answer   *)
(* before it asks again.  A world is a value; a request carries the world  *)
(* it would leave.                                                         *)
(***************************************************************************)
EXTENDS Integers, Sequences, SequencesExt, Functions

CONSTANTS Worlds, Empty,   \* Empty is the first world
          Sizes,           \* pieces a request's bytes arrive in; none for an empty one
          Pieces,          \* pieces of an answer
          Capacity,        \* pieces a pipe holds
          MaxRequests      \* a bound on the host's requests

ASSUME EmptyAssumption == Empty \in Worlds
ASSUME BoundAssumption ==
  Sizes \subseteq Nat /\ {Pieces, Capacity, MaxRequests} \subseteq Nat \ {0}

VARIABLES
  session,     \* the served world and its snapshots
  phase,       \* what serve waits for
  left,        \* pieces of the request left to read, or of the answer to write
  data,        \* pieces of the request read
  answer,      \* the answer being written
  exit_status,
  input, output,          \* the pipes
  input_open, output_open,
  asked,       \* requests made
  open,        \* the request not answered, if there is one
  unwritten,   \* pieces of the last request not written
  known,       \* what the host knows: the world, and its snapshots by id
  untold       \* whether an answer hid a change from the host

server == <<session, phase, left, data, answer, exit_status>>
pipes == <<input, output, input_open, output_open>>
host == <<asked, open, unwritten, known>>
vars == <<server, pipes, host, untold>>

DONE == "DONE"
ALLOCATION_FAILED == "ALLOCATION_FAILED"
BAD_REQUEST == "BAD_REQUEST"
NO_SNAPSHOT == "NO_SNAPSHOT"

Ids == 0..MaxRequests - 1
\* Setups change the world directly.  A malformed request is one of any length whose
\* fields do not end where its bytes do.
Commands ==
  [op : {"SETUP", "TRANSACT"}, world : Worlds, id : {0}]
  \cup [op : {"ACCOUNT", "SIMULATE", "SNAPSHOT", "MALFORMED"}, world : {Empty}, id : {0}]
  \cup [op : {"REVERT"}, world : {Empty}, id : Ids]
Requests == [number : 1..MaxRequests, command : Commands, size : Sizes]
Answers == [to : 0..MaxRequests, status : {DONE, ALLOCATION_FAILED, BAD_REQUEST, NO_SNAPSHOT},
            id : 0..MaxRequests, world : Worlds, pieces : {1, Pieces}]

\* A frame on a pipe: its length, then its pieces.
Frame(r) == [i \in 1..r.size + 1 |-> [index |-> i - 1, request |-> r]]
NoAnswer == [to |-> 0, status |-> DONE, id |-> 0, world |-> Empty, pieces |-> 1]

-----------------------------------------------------------------------------
(* The host *)

\* Asks for something.
Ask ==
  /\ input_open /\ output_open /\ open = <<>> /\ asked < MaxRequests
  /\ asked' = asked + 1
  /\ \E c \in Commands, n \in Sizes :
       /\ n = 0 => c.op = "MALFORMED"
       /\ LET r == [number |-> asked + 1, command |-> c, size |-> n]
          IN open' = Append(open, r) /\ unwritten' = Frame(r)
  /\ UNCHANGED <<server, pipes, known, untold>>

Write ==
  /\ input_open /\ unwritten # <<>> /\ Len(input) < Capacity
  /\ input' = Append(input, Head(unwritten)) /\ unwritten' = Tail(unwritten)
  /\ UNCHANGED <<server, output, input_open, output_open, asked, open, known, untold>>

\* What an answer tells: what the request does, if it is done; that nothing changed, if not.
learned(r, a) ==
  IF a.status # DONE THEN known
  ELSE CASE r.command.op \in {"SETUP", "TRANSACT"} -> [known EXCEPT !.world = a.world]
         [] r.command.op = "SNAPSHOT" ->
              [known EXCEPT !.snapshots = [i \in DOMAIN @ \cup {a.id} |->
                                             IF i = a.id THEN known.world ELSE @[i]]]
         [] r.command.op = "REVERT" /\ r.command.id \in DOMAIN known.snapshots ->
              [world |-> known.snapshots[r.command.id],
               snapshots |-> Restrict(known.snapshots, {i \in DOMAIN known.snapshots : i <= r.command.id})]
         [] OTHER -> known

\* Reads a piece, which the client does not before its whole request is written.
Read ==
  /\ output_open /\ output # <<>> /\ open # <<>> /\ unwritten = <<>>
  /\ output' = Tail(output)
  /\ IF Head(output).index < Head(output).answer.pieces THEN UNCHANGED <<open, known>>
     ELSE open' = Tail(open) /\ known' = learned(Head(open), Head(output).answer)
  /\ UNCHANGED <<server, input, input_open, output_open, asked, unwritten, untold>>

\* The session drops: it closes the input, between requests.
Drop ==
  /\ input_open /\ open = <<>> /\ input_open' = FALSE
  /\ UNCHANGED <<server, input, output, output_open, host, untold>>

\* The host dies: both pipes close where they are.
Die ==
  /\ output_open /\ input_open' = FALSE /\ output_open' = FALSE
  /\ UNCHANGED <<server, input, output, host, untold>>

-----------------------------------------------------------------------------
(* The server's pipes *)

Exit(status) ==
  /\ phase' = "exited" /\ exit_status' = status
  /\ UNCHANGED <<session, left, data, answer, input, output, untold>>

\* The end of input: a clean end between frames only.
InputEnds ==
  /\ phase \in {"header", "body", "drain"} /\ input = <<>> /\ ~input_open
  /\ Exit(IF phase = "header" THEN 0 ELSE 1)
  /\ UNCHANGED <<input_open, output_open, host>>

\* Mutant: a request there is no memory for is not read.
drained_never(size) == 0

drained(size) == size

\* Reads a frame's length.  There may be no memory for that many bytes, nor for the
\* chunk that drains them, which traps.
ReadHeader ==
  /\ phase = "header" /\ input # <<>> /\ input' = Tail(input)
  /\ LET size == Head(input).request.size
     IN \/ left' = size /\ phase' = (IF size = 0 THEN "handle" ELSE "body") /\ UNCHANGED exit_status
        \/ /\ left' = drained(size) /\ phase' = IF left' = 0 THEN "send" ELSE "drain"
           /\ UNCHANGED exit_status
        \/ left' = 0 /\ phase' = "exited" /\ exit_status' = 2
  /\ answer' = [NoAnswer EXCEPT !.to = Head(input).request.number, !.status = ALLOCATION_FAILED]
  /\ data' = <<>>
  /\ UNCHANGED <<session, output, input_open, output_open, host, untold>>

at_end == left = 1

\* A piece of a request, and of one there is no memory for.
ReadBody ==
  /\ phase = "body" /\ input # <<>> /\ input' = Tail(input)
  /\ data' = Append(data, Head(input)) /\ left' = left - 1
  /\ phase' = IF at_end THEN "handle" ELSE "body"
  /\ UNCHANGED <<session, answer, exit_status, output, input_open, output_open, host, untold>>

Drain ==
  /\ phase = "drain" /\ input # <<>> /\ input' = Tail(input)
  /\ left' = left - 1 /\ phase' = IF at_end THEN "send" ELSE "drain"
  /\ UNCHANGED <<session, data, answer, exit_status, output, input_open, output_open, host, untold>>

\* Writes a piece of the answer.
Send ==
  /\ phase = "send" /\ output_open /\ Len(output) < Capacity
  /\ output' = Append(output, [index |-> left, answer |-> answer])
  /\ IF left = answer.pieces THEN phase' = "header" /\ left' = 0 ELSE phase' = "send" /\ left' = left + 1
  /\ UNCHANGED <<session, data, answer, exit_status, input, input_open, output_open, host, untold>>

OutputEnds ==
  /\ phase = "send" /\ ~output_open /\ Exit(1)
  /\ UNCHANGED <<input_open, output_open, host>>

-----------------------------------------------------------------------------
(* What a request does *)

Kept(status) == [session |-> session, status |-> status, id |-> 0]

Left(w) == [Kept(DONE) EXCEPT !.session.world = w]

\* Mutant: the snapshot restored is discarded too.
reverted_dropping(id) ==
  [Kept(DONE) EXCEPT !.session = [world |-> session.snapshots[id + 1],
                                  snapshots |-> SubSeq(session.snapshots, 1, id)]]

\* Restores a snapshot, which stays, and discards later ones.
reverted(id) ==
  [Kept(DONE) EXCEPT !.session = [world |-> session.snapshots[id + 1],
                                  snapshots |-> SubSeq(session.snapshots, 1, id + 1)]]

taken == [[Kept(DONE) EXCEPT !.id = Len(session.snapshots)]
            EXCEPT !.session.snapshots = Append(@, session.world)]

\* read_request stops short of the request's end when there is no memory for the
\* calldata, and goes on when there is none for a list.
Undecoded == {Kept(BAD_REQUEST), Kept(ALLOCATION_FAILED)}

\* What handle may do, by what memory there is; a transaction may be invalid or fail.
outcomes(c) ==
  CASE c.op = "MALFORMED" -> {Kept(BAD_REQUEST)}
    [] c.op = "SETUP" -> {Left(c.world), Kept(ALLOCATION_FAILED)}
    [] c.op = "ACCOUNT" -> {Kept(DONE)}
    [] c.op = "TRANSACT" -> {Left(c.world), Kept(DONE)} \cup Undecoded
    [] c.op = "SIMULATE" -> {Kept(DONE)} \cup Undecoded
    [] c.op = "SNAPSHOT" -> {taken, Kept(ALLOCATION_FAILED)}
    [] c.op = "REVERT" /\ c.id >= Len(session.snapshots) -> {Kept(NO_SNAPSHOT)}
    [] OTHER -> {reverted(c.id), Kept(ALLOCATION_FAILED)}

\* The command of the pieces read, malformed if they are not one request's.
command ==
  IF data # <<>> /\ data = Tail(Frame(data[1].request)) THEN data[1].request.command
  ELSE CHOOSE c \in Commands : c.op = "MALFORMED"

\* The answer's number, of its request, is not sent: it tells answers apart.
answered(o, built) ==
  IF built THEN [to |-> answer.to, status |-> o.status, id |-> o.id, world |-> o.session.world,
                 pieces |-> IF o.status = DONE THEN Pieces ELSE 1]
  ELSE [NoAnswer EXCEPT !.to = answer.to, !.status = ALLOCATION_FAILED]

\* Handles the request and builds its answer, for which there may be no memory.
handle ==
  /\ phase = "handle" /\ phase' = "send" /\ left' = 0
  /\ \E o \in outcomes(command), built \in BOOLEAN :
       /\ session' = o.session
       /\ answer' = answered(o, built)
       /\ untold' = (untold \/ (~built /\ session' # session))
  /\ UNCHANGED <<data, exit_status, pipes, host>>

\* A transaction may trap (Transaction, Processor), and so does an answer when there is
\* no memory even to say so.  The process ends.
Trap ==
  /\ \/ phase = "handle" /\ command.op \in {"TRANSACT", "SIMULATE"}
     \/ phase = "send" /\ left = 0 /\ answer.status = ALLOCATION_FAILED
  /\ Exit(2)
  /\ UNCHANGED <<input_open, output_open, host>>

-----------------------------------------------------------------------------
Init ==
  /\ session = [world |-> Empty, snapshots |-> <<>>]
  /\ phase = "header" /\ left = 0 /\ data = <<>> /\ answer = NoAnswer /\ exit_status = 0
  /\ input = <<>> /\ output = <<>> /\ input_open = TRUE /\ output_open = TRUE
  /\ asked = 0 /\ open = <<>> /\ unwritten = <<>>
  /\ known = [world |-> Empty, snapshots |-> <<>>] /\ untold = FALSE

Host == Ask \/ Write \/ Read \/ Drop \/ Die
Server == InputEnds \/ ReadHeader \/ ReadBody \/ Drain \/ handle \/ Trap \/ Send \/ OutputEnds

Next == Host \/ Server

Spec == Init /\ [][Next]_vars

\* serve is a loop; a host writes what it began to write and reads its answers.
LiveSpec == Spec /\ WF_vars(Server) /\ WF_vars(Write) /\ WF_vars(Read)

-----------------------------------------------------------------------------
(* Properties *)

\* A host told of every change knows the world and each of its snapshots: one taken
\* holds the world it copied until it is discarded, ids stand for what they did.
HostKnows ==
  open = <<>> /\ phase = "header" /\ ~untold =>
    /\ known.world = session.world
    /\ \A id \in DOMAIN known.snapshots :
         id < Len(session.snapshots) /\ session.snapshots[id + 1] = known.snapshots[id]

\* "fevm could not allocate memory; nothing changed" (native/client/README.md).
NothingChanged ==
  [][phase = "handle" /\ answer'.status = ALLOCATION_FAILED => session' = session]_vars

\* Every request is answered, unless the process or the host ends: neither waits on
\* the other for ever, however little the pipes hold.
Answered ==
  \A n \in 1..MaxRequests :
    (asked = n /\ open # <<>>) ~> (open = <<>> \/ asked > n \/ phase = "exited" \/ ~output_open)

\* A host that closes the input, or dies, is followed by the server's end.
Ends == ~input_open ~> phase = "exited"
=============================================================================

------------------------------ MODULE EvmMemory ------------------------------
(***************************************************************************)
(* What a program may rely on of its memory, its charges and its log: the  *)
(* memory of a frame starts empty, extends by zeros to whole words that    *)
(* cover every range it touches, and each extension costs the difference   *)
(* of a convex cost of its size; what a failed frame logged is gone.  A    *)
(* range too far to pay for is never anything but out of gas, wherever it  *)
(* lies.  The host may fail at any moment, which ends the message.         *)
(***************************************************************************)
EXTENDS Integers, Sequences, FiniteSets

CONSTANTS Offsets,         \* where a word or a byte is loaded or stored, up to the largest word
          Copies, Ranges,  \* destination, source and length; offset and length
          Calls,           \* the ranges of a call's input and output
          Bytes,           \* what is stored, beside zero
          GasLimits,       \* the gas of the messages to come, the next one last
          MaxDepth, MaxLogs

WORD == 2
Words(size) == (size + WORD - 1) \div WORD
Cost(size) == Words(size) + (Words(size) * Words(size)) \div 8
Rounded(end) == WORD * Words(end)
Zeros(n) == [k \in 1 .. n |-> 0]
Least(a, b) == IF a < b THEN a ELSE b
\* n bytes of a string from an offset, zeros past its end.
Padded(string, offset, n) ==
  [k \in 1 .. n |-> IF offset < Len(string) /\ offset + k <= Len(string) THEN string[offset + k] ELSE 0]

VARIABLES frames,   \* the frames of the message, outermost first
          logs,     \* the data of the logs it keeps
          seen,     \* the word read last, or the output of the frame ended last
          left      \* messages to come
abstract == <<frames, logs, seen, left>>

Frame(gas, input, out) == [bytes |-> <<>>, gas |-> gas, input |-> input, out |-> out, logs |-> Len(logs)]
top == frames[Len(frames)]
Under(f) == [frames EXCEPT ![Len(frames)] = f]

Covering(size, range) ==
  IF range[2] = 0 \/ Rounded(range[1] + range[2]) <= size THEN size ELSE Rounded(range[1] + range[2])
\* Ranges touched at an operation's own cost, and the frame they leave.
Extent(ranges) ==
  LET covered[k \in 0 .. Len(ranges)] ==
        IF k = 0 THEN Len(top.bytes) ELSE Covering(covered[k - 1], ranges[k])
  IN covered[Len(ranges)]
Charge(ranges, own) == Cost(Extent(ranges)) - Cost(Len(top.bytes)) + own
Affords(ranges, own) == frames # <<>> /\ Charge(ranges, own) <= top.gas
Touched(ranges, own) ==
  [top EXCEPT !.bytes = Padded(@, 0, Extent(ranges)), !.gas = @ - Charge(ranges, own)]
Slice(bytes, range) == IF range[2] = 0 THEN <<>> ELSE SubSeq(bytes, range[1] + 1, range[1] + range[2])
Written(bytes, offset, data) ==
  [k \in 1 .. Len(bytes) |-> IF k > offset /\ k <= offset + Len(data) THEN data[k - offset] ELSE bytes[k]]

\* A frame ends with its output and gas; the frame above takes what it asked for.
Ends(f, kept, gas, output) ==
  LET under == frames[Len(frames) - 1]
      taken == SubSeq(output, 1, Least(f.out[2], Len(output)))
  IN /\ logs' = IF kept THEN logs ELSE SubSeq(logs, 1, f.logs)
     /\ seen' = output
     /\ frames' = IF Len(frames) = 1 THEN <<>>
                  ELSE [SubSeq(frames, 1, Len(frames) - 1) EXCEPT ![Len(frames) - 1] =
                          [under EXCEPT !.gas = @ + gas, !.bytes = Written(@, f.out[1], taken)]]
     /\ UNCHANGED left

OutOfGas(ranges, own) == frames # <<>> /\ ~Affords(ranges, own) /\ Ends(top, FALSE, 0, <<>>)

Load(offset) ==
  LET ranges == <<<<offset, WORD>>>> IN
  \/ /\ Affords(ranges, 1)
     /\ frames' = Under(Touched(ranges, 1)) /\ seen' = Slice(Touched(ranges, 1).bytes, ranges[1])
     /\ UNCHANGED <<logs, left>>
  \/ OutOfGas(ranges, 1)

Store(offset, data) ==
  LET ranges == <<<<offset, Len(data)>>>> IN
  \/ /\ Affords(ranges, 1)
     /\ frames' = Under([Touched(ranges, 1) EXCEPT !.bytes = Written(@, offset, data)])
     /\ UNCHANGED <<logs, seen, left>>
  \/ OutOfGas(ranges, 1)

\* Copies pay for their words as well, and read zeros past what they copy from.
CopyInput(dest, source, length) ==
  LET ranges == <<<<dest, length>>>>
      own == 1 + Words(length)
  IN \/ /\ Affords(ranges, own)
        /\ frames' = Under([Touched(ranges, own) EXCEPT
                              !.bytes = Written(@, dest, Padded(top.input, source, length))])
        /\ UNCHANGED <<logs, seen, left>>
     \/ OutOfGas(ranges, own)

CopyMemory(dest, source, length) ==
  LET ranges == <<<<dest, length>>, <<source, length>>>>
      own == 1 + Words(length)
  IN \/ /\ Affords(ranges, own)
        /\ frames' = Under([Touched(ranges, own) EXCEPT !.bytes = Written(@, dest, Slice(@, ranges[2]))])
        /\ UNCHANGED <<logs, seen, left>>
     \/ OutOfGas(ranges, own)

Log(range) ==
  LET own == 1 + range[2] IN
  \/ /\ Len(logs) < MaxLogs /\ Affords(<<range>>, own)
     /\ frames' = Under(Touched(<<range>>, own))
     /\ logs' = Append(logs, Slice(Touched(<<range>>, own).bytes, range)) /\ UNCHANGED <<seen, left>>
  \/ OutOfGas(<<range>>, own)

\* The callee has the caller's gas and its own memory.
Call(input, out) ==
  LET ranges == <<input, out>> IN
  \/ /\ Len(frames) < MaxDepth /\ Affords(ranges, 1)
     /\ LET f == Touched(ranges, 1) IN
        frames' = Append(Under([f EXCEPT !.gas = 0]),
                         Frame(f.gas, Slice(f.bytes, input), IF out[2] = 0 THEN <<0, 0>> ELSE out))
     /\ UNCHANGED <<logs, seen, left>>
  \/ OutOfGas(ranges, 1)

Return(range, kept) ==
  \/ /\ Affords(<<range>>, 1)
     /\ LET f == Touched(<<range>>, 1) IN Ends(f, kept, f.gas, Slice(f.bytes, range))
  \/ OutOfGas(<<range>>, 1)

HostFails == frames # <<>> /\ frames' = <<>> /\ logs' = <<>> /\ seen' = <<>> /\ UNCHANGED left

Message ==
  /\ frames = <<>> /\ left > 0 /\ left' = left - 1
  /\ logs' = <<>> /\ seen' = <<>>
  /\ frames' = <<[bytes |-> <<>>, gas |-> GasLimits[left], input |-> <<>>, out |-> <<0, 0>>, logs |-> 0]>>

Init == frames = <<>> /\ logs = <<>> /\ seen = <<>> /\ left = Len(GasLimits)
Next ==
  \/ Message \/ HostFails
  \/ \E offset \in Offsets : Load(offset) \/ \E b \in Bytes : Store(offset, <<b>>) \/ Store(offset, <<0, b>>)
  \/ \E c \in Copies : CopyInput(c[1], c[2], c[3]) \/ CopyMemory(c[1], c[2], c[3])
  \/ \E range \in Ranges : Log(range) \/ \E kept \in BOOLEAN : Return(range, kept)
  \/ \E c \in Calls : Call(c[1], c[2])

Spec == Init /\ [][Next]_abstract
=============================================================================

-------------------------- MODULE AcceptanceProofs --------------------------
(***************************************************************************)
(* What the builds of a compiler, the scripts' reports and the acceptance  *)
(* promise, proved for any number of builds, directories, acceptances,     *)
(* levels, cases, faults and edits.                                        *)
(***************************************************************************)
EXTENDS Acceptance, SequenceTheorems, TLAPS

Contents == Revisions \cup {None, Empty, Changed}
BootPhases == {"absent", "idle", "fe", "sonatina", "prepare", "build", "verify", "copy",
               "record", "done", "failed"}

BootType == [pc: BootPhases, out: Outs \cup {None}, target: Targets \cup {None},
             overtaken: BOOLEAN]
RecordType == [complete: BOOLEAN, revision: Contents, target: Targets \cup {None},
               compiler: Contents]

BootTypes ==
  /\ trees \in [Outs -> [{"fe", "sonatina"} -> Contents]]
  /\ binary \in [Outs -> Contents]
  /\ record \in [Outs -> RecordType]
  /\ cache \in [Targets -> Contents]
  /\ boots \in [Builds -> BootType]

\* Builds that found their directory fresh.
Owning == {"sonatina", "prepare", "build", "verify", "copy", "record", "done"}

\* One build has an --out directory.
BootsApart ==
  /\ \A b \in Builds : boots[b].pc \notin {"absent", "idle"} =>
       boots[b].out \in Outs /\ boots[b].target \in Targets
  /\ \A b \in Builds : boots[b].pc \in {"absent", "idle"} => ~boots[b].overtaken
  /\ \A b \in Builds : boots[b].pc \in Owning => trees[boots[b].out]["fe"] # None
  /\ \A b, c \in Builds :
       boots[b].pc \in Owning /\ boots[c].pc \in Owning /\ boots[b].out = boots[c].out => b = c

\* What a build has in its directories so far.
BootsProgress ==
  /\ \A b \in Builds : boots[b].pc \in Owning \ {"verify", "done"} =>
       trees[boots[b].out]["fe"] = pinned[b]
  /\ \A b \in Builds : Copying(b) /\ ~boots[b].overtaken =>
       cache[boots[b].target] = trees[boots[b].out]["fe"]
  /\ \A b \in Builds : boots[b].pc = "record" /\ ~boots[b].overtaken =>
       binary[boots[b].out] = pinned[b]
  /\ \A o \in Outs : record[o].complete =>
       \E b \in Builds : boots[b].pc = "done" /\ boots[b].out = o

BootInv == BootTypes /\ BootsApart /\ BootsProgress /\ RecordedCompiler

\* A complete build is left alone.
CompleteStays ==
  \A o \in Outs : record[o].complete => record'[o] = record[o] /\ binary'[o] = binary[o]

-----------------------------------------------------------------------------
(* The builds *)

LEMMA BootInitInv ==
  ASSUME NEW party, BootInit(party)
  PROVE  BootInv
BY DEF BootInit, BootInv, BootTypes, BootsApart, BootsProgress, RecordedCompiler, Contents,
       BootPhases, BootType, RecordType, Owning, Copying, Overtaken, NoRecord, Idle, Absent

\* A build that takes part, and the directory it was given.
LEMMA BootStart ==
  ASSUME BootInv, NEW b \in Builds, NEW o \in Outs, NEW t \in Targets, Start(b, o, t)
  PROVE  BootInv' /\ CompleteStays
<1>1. /\ boots' = [boots EXCEPT ![b] = [pc |-> "fe", out |-> o, target |-> t, overtaken |-> FALSE]]
      /\ boots[b].pc = "idle" /\ UNCHANGED <<trees, binary, record, cache>>
  BY DEF Start, At
<1>2. PICK began \in BootType :
        /\ boots' = [boots EXCEPT ![b] = began]
        /\ began.pc = "fe" /\ began.out = o /\ began.target = t /\ ~began.overtaken
  <2>1. [pc |-> "fe", out |-> o, target |-> t, overtaken |-> FALSE] \in BootType
    BY DEF BootType, BootPhases
  <2> QED BY <1>1, <2>1
<1>3. boots' \in [Builds -> BootType]
      /\ \A c \in Builds : boots'[c] = IF c = b THEN began ELSE boots[c]
  BY <1>2 DEF BootInv, BootTypes
<1>4. BootTypes'
  BY <1>1, <1>3 DEF BootInv, BootTypes
<1>5. BootsApart'
  BY <1>1, <1>2, <1>3 DEF BootInv, BootsApart, Owning
<1>6. BootsProgress'
  BY <1>1, <1>2, <1>3 DEF BootInv, BootsProgress, Owning, Copying
<1>7. ~boots[b].overtaken
  BY <1>1 DEF BootInv, BootsApart
<1>8. \A d \in Outs : Overtaken(d) => Overtaken(d)'
  <2> TAKE d \in Outs
  <2> HAVE Overtaken(d)
  <2>1. PICK c \in Builds : boots[c].out = d /\ boots[c].overtaken
    BY DEF Overtaken
  <2>2. c # b
    BY <1>7, <2>1
  <2> QED BY <1>3, <2>1, <2>2 DEF Overtaken
<1>9. RecordedCompiler' /\ CompleteStays
  BY <1>1, <1>8 DEF BootInv, RecordedCompiler, CompleteStays
<1> QED BY <1>4, <1>5, <1>6, <1>9 DEF BootInv

\* A build that goes on moves itself only; one that has the directory, and is not done
\* with it, knows that nothing complete is in it.
LEMMA Moves ==
  ASSUME BootInv, NEW b \in Builds, boots[b].pc \notin {"absent", "idle"},
         NEW to \in BootPhases, Goto(b, to)
  PROVE  /\ boots[b].out \in Outs
         /\ boots' \in [Builds -> BootType]
         /\ \A c \in Builds : /\ boots'[c].pc = IF c = b THEN to ELSE boots[c].pc
                              /\ boots'[c].out = boots[c].out
                              /\ boots'[c].target = boots[c].target
                              /\ (boots'[c].overtaken <=> boots[c].overtaken)
         /\ boots[b].pc \in Owning \ {"done"} => ~record[boots[b].out].complete
<1>1. boots[b].out \in Outs /\ boots \in [Builds -> BootType]
      /\ boots' = [boots EXCEPT ![b].pc = to]
  BY DEF BootInv, BootTypes, BootsApart, Goto
<1>2. PICK old \in BootType : old = boots[b]
  BY <1>1
<1>3. [old EXCEPT !.pc = to] \in BootType
  BY DEF BootType
<1>4. PICK new \in BootType : new = [old EXCEPT !.pc = to]
  BY <1>3
<1>5. boots' = [boots EXCEPT ![b] = new]
  BY <1>1, <1>2, <1>4
<1>6. /\ new.pc = to /\ new.out = old.out /\ new.target = old.target
      /\ new.overtaken = old.overtaken
  BY <1>4 DEF BootType
<1>7. (new.overtaken <=> old.overtaken)
  BY <1>6
<1>8. boots' \in [Builds -> BootType]
  BY <1>1, <1>5
<1>9. \A c \in Builds : /\ boots'[c].pc = IF c = b THEN to ELSE boots[c].pc
                        /\ boots'[c].out = boots[c].out
                        /\ boots'[c].target = boots[c].target
                        /\ (boots'[c].overtaken <=> boots[c].overtaken)
  BY <1>1, <1>2, <1>5, <1>6, <1>7
<1>10. boots[b].pc \in Owning \ {"done"} => ~record[boots[b].out].complete
  BY <1>1 DEF BootInv, BootsApart, BootsProgress, Owning
<1> QED BY <1>1, <1>10, <1>8, <1>9

LEMMA BootFail ==
  ASSUME BootInv, NEW b \in Builds, boots[b].pc \notin {"absent", "idle", "done", "failed"},
         Goto(b, "failed"), UNCHANGED <<binary, record, cache, trees>>
  PROVE  BootInv' /\ CompleteStays
<1>1. /\ boots[b].out \in Outs
      /\ boots' \in [Builds -> BootType]
      /\ \A c \in Builds : /\ boots'[c].pc = IF c = b THEN "failed" ELSE boots[c].pc
                           /\ boots'[c].out = boots[c].out
                           /\ boots'[c].target = boots[c].target
                           /\ (boots'[c].overtaken <=> boots[c].overtaken)
  BY Moves DEF BootPhases
<1>2. BootTypes'
  BY <1>1 DEF BootInv, BootTypes
<1>3. BootsApart'
  BY <1>1 DEF BootInv, BootsApart, Owning, Copying
<1>4. BootsProgress'
  BY <1>1 DEF BootInv, BootsProgress, Owning, Copying
<1>5. RecordedCompiler' /\ CompleteStays
  BY <1>1 DEF BootInv, RecordedCompiler, Overtaken, CompleteStays
<1> QED BY <1>2, <1>3, <1>4, <1>5 DEF BootInv

LEMMA BootCheckout ==
  ASSUME BootInv, NEW b \in Builds, NEW next \in {"sonatina", "prepare"},
         NEW part \in {"fe", "sonatina"}, part = "fe" <=> next = "sonatina",
         checkout(b, part, next)
  PROVE  BootInv' /\ CompleteStays
<1>1. PICK o \in Outs : o = boots[b].out
  BY DEF BootInv, BootsApart, checkout, At
<1>2. boots[b].pc = part /\ UNCHANGED <<binary, record, cache>>
  BY DEF checkout, At
<1>3. CASE trees[o][part] # None
  <2>1. Goto(b, "failed") /\ UNCHANGED trees
    BY <1>1, <1>3 DEF checkout
  <2> QED BY <1>2, <2>1, BootFail
<1>4. CASE trees[o][part] = None
  <2>1. PICK actual \in Revisions \cup {Empty} :
          /\ trees' = [trees EXCEPT ![o][part] = actual]
          /\ Goto(b, IF actual = pinned[b] THEN next ELSE "failed")
    BY <1>1, <1>4 DEF checkout
  <2>2. PICK to \in BootPhases : to = IF actual = pinned[b] THEN next ELSE "failed"
    BY DEF BootPhases
  <2>3. /\ boots' \in [Builds -> BootType]
        /\ \A c \in Builds : /\ boots'[c].pc = IF c = b THEN to ELSE boots[c].pc
                             /\ boots'[c].out = boots[c].out
                             /\ boots'[c].target = boots[c].target
                             /\ (boots'[c].overtaken <=> boots[c].overtaken)
        /\ boots[b].pc \in Owning \ {"done"} => ~record[o].complete
    BY <1>1, <1>2, <2>1, <2>2, Moves
  <2>4. /\ trees' \in [Outs -> [{"fe", "sonatina"} -> Contents]]
        /\ \A d \in Outs : trees'[d]["fe"] = IF d = o /\ part = "fe" THEN actual
                                             ELSE trees[d]["fe"]
    BY <2>1 DEF BootInv, BootTypes, Contents
  <2>5. BootTypes'
    BY <1>2, <2>3, <2>4 DEF BootInv, BootTypes
  <2>6. actual # None /\ pinned[b] # None
    BY BootstrapAssumption
  <2>7. \A c \in Builds : boots[c].pc \in Owning /\ part = "fe" => boots[c].out # o
    BY <1>4 DEF BootInv, BootsApart
  <2>8. part = "fe" => ~record[o].complete
    BY <2>7 DEF BootInv, BootsProgress, Owning
  <2>9. BootsApart'
    BY <1>1, <1>2, <2>2, <2>3, <2>4, <2>6, <2>7 DEF BootInv, BootsApart, Owning, Copying
  <2>10. BootsProgress'
    <3>1. to \in {next, "failed"} /\ to \notin {"verify", "copy", "record", "done"}
      BY <2>2
    <3>2. ASSUME NEW c \in Builds, (boots[c].pc)' \in Owning \ {"verify", "done"}
          PROVE  trees'[boots'[c].out]["fe"] = pinned[c]
      <4>1. CASE c = b
        <5>1. to = next /\ actual = pinned[b] /\ boots'[c].out = o
          BY <1>1, <2>2, <2>3, <3>2, <4>1 DEF Owning
        <5>2. part = "fe" \/ boots[b].pc \in Owning \ {"verify", "done"}
          BY <1>2 DEF Owning
        <5> QED BY <1>1, <2>4, <4>1, <5>1, <5>2 DEF BootInv, BootsProgress
      <4>2. CASE c # b
        <5>1. boots[c].pc \in Owning \ {"verify", "done"} /\ boots[c].out \in Outs
              /\ boots'[c].out = boots[c].out
              /\ boots'[c].target = boots[c].target
              /\ (boots'[c].overtaken <=> boots[c].overtaken)
          BY <2>3, <3>2, <4>2 DEF Owning, BootInv, BootsApart
        <5>2. ~(boots[c].out = o /\ part = "fe")
          BY <2>7, <5>1
        <5> QED BY <2>4, <5>1, <5>2 DEF BootInv, BootsProgress
      <4> QED BY <4>1, <4>2
    <3>3. ASSUME NEW c \in Builds, Copying(c)', ~(boots[c].overtaken)'
          PROVE  (cache[boots[c].target])' = (trees[boots[c].out]["fe"])'
      <4>1. /\ c # b /\ Copying(c) /\ boots[c].out \in Outs /\ ~boots[c].overtaken
            /\ boots'[c].out = boots[c].out /\ boots'[c].target = boots[c].target
            /\ boots[c].pc \in Owning
        BY <2>3, <3>1, <3>3 DEF Copying, Owning, BootInv, BootsApart
      <4>2. ~(boots[c].out = o /\ part = "fe")
        BY <2>7, <4>1
      <4> QED BY <1>2, <2>4, <4>1, <4>2 DEF BootInv, BootsProgress
    <3>4. \A c \in Builds : (boots[c].pc)' = "record" /\ ~(boots[c].overtaken)' =>
            (binary[boots[c].out])' = pinned[c]
      BY <1>2, <2>3, <3>1 DEF BootInv, BootsProgress
    <3>5. ASSUME NEW d \in Outs, (record[d].complete)'
          PROVE  \E c \in Builds : (boots[c].pc)' = "done" /\ (boots[c].out)' = d
      <4>1. PICK c \in Builds : boots[c].pc = "done" /\ boots[c].out = d
        BY <1>2, <3>5 DEF BootInv, BootsProgress
      <4>2. c # b
        BY <1>2, <4>1
      <4> QED BY <2>3, <4>1, <4>2
    <3> QED BY <3>2, <3>3, <3>4, <3>5 DEF BootsProgress
  <2>11. RecordedCompiler' /\ CompleteStays
    BY <1>2, <2>3, <2>4, <2>8 DEF BootInv, RecordedCompiler, Overtaken, CompleteStays
  <2> QED BY <2>5, <2>9, <2>10, <2>11 DEF BootInv
<1> QED BY <1>3, <1>4

LEMMA BootPrepare ==
  ASSUME BootInv, NEW b \in Builds, Prepare(b)
  PROVE  BootInv' /\ CompleteStays
<1>1. PICK o : o = boots[b].out
  OBVIOUS
<1>2. PICK to \in {"build", "done"} : Goto(b, to)
  BY DEF Prepare
<1>3. boots[b].pc = "prepare" /\ UNCHANGED <<trees, binary, cache>>
      /\ record' = [record EXCEPT ![o] = Recorded(b, FALSE, None)]
  BY <1>1 DEF Prepare, At
<1>4. /\ o \in Outs /\ boots' \in [Builds -> BootType]
      /\ \A c \in Builds : /\ boots'[c].pc = IF c = b THEN to ELSE boots[c].pc
                           /\ boots'[c].out = boots[c].out
                           /\ boots'[c].target = boots[c].target
                           /\ (boots'[c].overtaken <=> boots[c].overtaken)
      /\ ~record[o].complete
  BY <1>1, <1>2, <1>3, Moves DEF BootPhases, Owning
<1>5. PICK blank \in RecordType : blank = Recorded(b, FALSE, None) /\ ~blank.complete
  <2>1. pinned[b] \in Contents /\ None \in Contents /\ boots[b].target \in Targets
    BY <1>3, BootstrapAssumption DEF Contents, BootInv, BootsApart
  <2>2. Recorded(b, FALSE, None) \in RecordType
    BY <2>1 DEF RecordType, Recorded
  <2>3. ~Recorded(b, FALSE, None).complete
    BY DEF Recorded
  <2> QED BY <2>2, <2>3
<1>6. BootTypes' /\ \A d \in Outs : record'[d].complete => record[d].complete /\ record'[d] = record[d]
  BY <1>3, <1>4, <1>5 DEF BootInv, BootTypes
<1>7. BootsApart'
  BY <1>2, <1>3, <1>4 DEF BootInv, BootsApart, Owning, Copying
<1>8. BootsProgress'
  <2>1. \A c \in Builds : boots'[c].pc \in Owning \ {"verify", "done"} =>
          trees'[boots'[c].out]["fe"] = pinned[c]
    BY <1>2, <1>3, <1>4 DEF BootInv, BootsProgress, Owning
  <2>2. \A d \in Outs : record'[d].complete =>
          \E c \in Builds : boots'[c].pc = "done" /\ boots'[c].out = d
    <3> SUFFICES ASSUME NEW d \in Outs, record'[d].complete
                 PROVE  \E c \in Builds : boots'[c].pc = "done" /\ boots'[c].out = d
      OBVIOUS
    <3>1. PICK c \in Builds : boots[c].pc = "done" /\ boots[c].out = d
      BY <1>6 DEF BootInv, BootsProgress
    <3>2. c # b
      BY <1>3, <3>1
    <3> QED BY <1>4, <3>1, <3>2
  <2>3. \A c \in Builds : Copying(c)' /\ ~(boots[c].overtaken)' =>
          (cache[boots[c].target])' = (trees[boots[c].out]["fe"])'
    BY <1>2, <1>3, <1>4 DEF BootInv, BootsProgress, Copying
  <2>4. \A c \in Builds : (boots[c].pc)' = "record" /\ ~(boots[c].overtaken)' =>
          (binary[boots[c].out])' = pinned[c]
    BY <1>2, <1>3, <1>4 DEF BootInv, BootsProgress
  <2> QED BY <2>1, <2>2, <2>3, <2>4 DEF BootsProgress
<1>9. RecordedCompiler' /\ CompleteStays
  BY <1>3, <1>4, <1>6 DEF BootInv, RecordedCompiler, Overtaken, CompleteStays, BootTypes
<1> QED BY <1>6, <1>7, <1>8, <1>9 DEF BootInv

LEMMA BootCompile ==
  ASSUME BootInv, NEW b \in Builds, Compile(b)
  PROVE  BootInv' /\ CompleteStays
<1>1. /\ boots[b].pc = "build" /\ UNCHANGED <<record, binary>>
      /\ boots \in [Builds -> BootType] /\ boots[b].out \in Outs /\ boots[b].target \in Targets
  BY DEF Compile, At, BootInv, BootTypes, BootsApart
<1>2. PICK o \in Outs, t \in Targets : o = boots[b].out /\ t = boots[b].target
  BY <1>1
<1>3. PICK built \in {trees[o]["fe"], Changed} :
        trees' = [trees EXCEPT ![o]["fe"] = built] /\ cache' = [cache EXCEPT ![t] = built]
  BY <1>2 DEF Compile
<1>4. ~record[o].complete
  BY <1>1, <1>2 DEF BootInv, BootsApart, BootsProgress, Owning
<1>5. built \in Contents \ {None}
  BY <1>1, <1>2, BootstrapAssumption DEF BootInv, BootTypes, BootsApart, Contents, Owning
<1>6. /\ trees' \in [Outs -> [{"fe", "sonatina"} -> Contents]]
      /\ \A d \in Outs : trees'[d]["fe"] = IF d = o THEN built ELSE trees[d]["fe"]
      /\ cache' \in [Targets -> Contents]
      /\ \A d \in Targets : cache'[d] = IF d = t THEN built ELSE cache[d]
  BY <1>2, <1>3, <1>5 DEF BootInv, BootTypes
<1>7. boots' = [c \in Builds |->
        IF c = b THEN [boots[b] EXCEPT !.pc = "verify"]
        ELSE [boots[c] EXCEPT !.overtaken = @ \/ (Copying(c) /\ boots[c].target = t)]]
  BY <1>2 DEF Compile
<1>8. /\ boots'[b] \in BootType /\ boots'[b].pc = "verify" /\ boots'[b].out = o
      /\ boots'[b].target = t /\ (boots'[b].overtaken <=> boots[b].overtaken)
  BY <1>1, <1>2, <1>7 DEF BootType, BootPhases
<1>9. ASSUME NEW c \in Builds \ {b}
      PROVE  /\ boots'[c] \in BootType /\ boots'[c].pc = boots[c].pc
             /\ boots'[c].out = boots[c].out /\ boots'[c].target = boots[c].target
             /\ (boots'[c].overtaken <=>
                  boots[c].overtaken \/ (Copying(c) /\ boots[c].target = t))
  <2>1. boots[c] \in BootType
        /\ boots'[c] = [boots[c] EXCEPT !.overtaken = @ \/ (Copying(c) /\ boots[c].target = t)]
    BY <1>1, <1>7
  <2>2. (boots[c].overtaken \/ (Copying(c) /\ boots[c].target = t)) \in BOOLEAN
    OBVIOUS
  <2>3. PICK late \in BOOLEAN :
          late = (boots[c].overtaken \/ (Copying(c) /\ boots[c].target = t))
    BY <2>2
  <2>4. boots'[c] = [boots[c] EXCEPT !.overtaken = late]
    BY <2>1, <2>3
  <2> QED BY <2>1, <2>3, <2>4 DEF BootType
<1>10. boots' \in [Builds -> BootType]
  BY <1>7, <1>8, <1>9
<1>11. BootTypes'
  BY <1>1, <1>6, <1>10 DEF BootInv, BootTypes
<1>12. \A c \in Builds : boots[c].pc \in Owning /\ boots[c].out = o => c = b
  BY <1>1, <1>2 DEF BootInv, BootsApart, Owning
<1>13. BootsApart'
  BY <1>1, <1>2, <1>5, <1>6, <1>8, <1>9 DEF BootInv, BootsApart, Owning, Copying
<1>14. BootsProgress'
  <2>1. ASSUME NEW c \in Builds, (boots[c].pc)' \in Owning \ {"verify", "done"}
        PROVE  (trees[boots[c].out]["fe"])' = pinned[c]
    <3>1. c # b /\ boots[c].pc \in Owning \ {"verify", "done"} /\ boots[c].out # o
          /\ boots[c].out \in Outs /\ boots'[c].out = boots[c].out
      BY <1>8, <1>9, <1>12, <2>1 DEF Owning, BootInv, BootsApart
    <3> QED BY <1>6, <3>1 DEF BootInv, BootsProgress
  <2>2. ASSUME NEW c \in Builds, Copying(c)', ~(boots[c].overtaken)'
        PROVE  (cache[boots[c].target])' = (trees[boots[c].out]["fe"])'
    <3>1. CASE c = b
      BY <1>6, <1>8, <3>1
    <3>2. CASE c # b
      <4>1. Copying(c) /\ ~boots[c].overtaken /\ boots[c].target # t
            /\ boots'[c].out = boots[c].out /\ boots'[c].target = boots[c].target
        BY <1>9, <2>2, <3>2 DEF Copying
      <4>2. boots[c].out \in Outs /\ boots[c].target \in Targets /\ boots[c].out # o
        BY <1>12, <3>2, <4>1 DEF BootInv, BootsApart, Owning, Copying
      <4> QED BY <1>6, <4>1, <4>2 DEF BootInv, BootsProgress
    <3> QED BY <3>1, <3>2
  <2>3. \A c \in Builds : (boots[c].pc)' = "record" /\ ~(boots[c].overtaken)' =>
          (binary[boots[c].out])' = pinned[c]
    BY <1>1, <1>8, <1>9 DEF BootInv, BootsProgress
  <2>4. ASSUME NEW d \in Outs, (record[d].complete)'
        PROVE  \E c \in Builds : (boots[c].pc)' = "done" /\ (boots[c].out)' = d
    <3>1. PICK c \in Builds : boots[c].pc = "done" /\ boots[c].out = d
      BY <1>1, <2>4 DEF BootInv, BootsProgress
    <3> QED BY <1>1, <1>9, <3>1
  <2> QED BY <2>1, <2>2, <2>3, <2>4 DEF BootsProgress
<1>15. \A d \in Outs : Overtaken(d) => Overtaken(d)'
  BY <1>2, <1>8, <1>9 DEF Overtaken
<1>16. RecordedCompiler' /\ CompleteStays
  BY <1>1, <1>4, <1>6, <1>15 DEF BootInv, RecordedCompiler, CompleteStays
<1> QED BY <1>11, <1>13, <1>14, <1>16 DEF BootInv

LEMMA BootVerify ==
  ASSUME BootInv, NEW b \in Builds, Verify(b)
  PROVE  BootInv' /\ CompleteStays
<1>1. boots[b].pc = "verify" /\ UNCHANGED <<trees, record, binary, cache>>
  BY DEF Verify, At
<1>2. CASE ~unchanged(boots[b].out, pinned[b])
  BY <1>1, <1>2, BootFail DEF Verify
<1>3. CASE unchanged(boots[b].out, pinned[b])
  <2>1. /\ boots' \in [Builds -> BootType]
        /\ \A c \in Builds : /\ boots'[c].pc = IF c = b THEN "copy" ELSE boots[c].pc
                             /\ boots'[c].out = boots[c].out
                             /\ boots'[c].target = boots[c].target
                             /\ (boots'[c].overtaken <=> boots[c].overtaken)
    BY <1>1, <1>3, Moves DEF BootPhases, Verify
  <2>2. BootTypes'
    BY <1>1, <2>1 DEF BootInv, BootTypes
  <2>3. BootsApart'
    BY <1>1, <2>1 DEF BootInv, BootsApart, Owning, Copying
  <2>4. BootsProgress'
    BY <1>1, <1>3, <2>1 DEF BootInv, BootsProgress, Owning, Copying, unchanged
  <2>5. RecordedCompiler' /\ CompleteStays
    BY <1>1, <2>1 DEF BootInv, RecordedCompiler, Overtaken, CompleteStays
  <2> QED BY <2>2, <2>3, <2>4, <2>5 DEF BootInv
<1> QED BY <1>2, <1>3

LEMMA BootCopy ==
  ASSUME BootInv, NEW b \in Builds, Copy(b)
  PROVE  BootInv' /\ CompleteStays
<1>1. PICK o : o = boots[b].out
  OBVIOUS
<1>2. boots[b].pc = "copy" /\ UNCHANGED <<trees, record, cache>>
  BY DEF Copy, At
<1>3. CASE binary[o] # None
  BY <1>1, <1>2, <1>3, BootFail DEF Copy
<1>4. CASE binary[o] = None
  <2>1. binary' = [binary EXCEPT ![o] = cache[boots[b].target]] /\ Goto(b, "record")
    BY <1>1, <1>4 DEF Copy
  <2>2. /\ o \in Outs /\ boots' \in [Builds -> BootType]
        /\ \A c \in Builds : /\ boots'[c].pc = IF c = b THEN "record" ELSE boots[c].pc
                             /\ boots'[c].out = boots[c].out
                             /\ boots'[c].target = boots[c].target
                             /\ (boots'[c].overtaken <=> boots[c].overtaken)
        /\ ~record[o].complete
    BY <1>1, <1>2, <2>1, Moves DEF BootPhases, Owning
  <2>3. /\ binary' \in [Outs -> Contents]
        /\ \A d \in Outs : binary'[d] = IF d = o THEN cache[boots[b].target] ELSE binary[d]
    BY <1>2, <2>1 DEF BootInv, BootTypes, BootsApart
  <2>4. ~boots[b].overtaken => cache[boots[b].target] = pinned[b]
    BY <1>1, <1>2 DEF BootInv, BootsProgress, Owning, Copying
  <2>5. BootTypes'
    BY <1>2, <2>2, <2>3 DEF BootInv, BootTypes
  <2>6. BootsApart'
    BY <1>1, <1>2, <2>2 DEF BootInv, BootsApart, Owning, Copying
  <2>7. BootsProgress'
    BY <1>1, <1>2, <2>2, <2>3, <2>4 DEF BootInv, BootsProgress, BootsApart, Owning, Copying
  <2>8. RecordedCompiler' /\ CompleteStays
    BY <1>2, <2>2, <2>3 DEF BootInv, RecordedCompiler, Overtaken, CompleteStays
  <2> QED BY <2>5, <2>6, <2>7, <2>8 DEF BootInv
<1> QED BY <1>3, <1>4

LEMMA BootComplete ==
  ASSUME BootInv, NEW b \in Builds, Complete(b)
  PROVE  BootInv' /\ CompleteStays
<1>1. PICK o : o = boots[b].out
  OBVIOUS
<1>2. /\ boots[b].pc = "record" /\ UNCHANGED <<trees, binary, cache>> /\ Goto(b, "done")
      /\ record' = [record EXCEPT ![o] = Recorded(b, TRUE, binary[o])]
  BY <1>1 DEF Complete, At, compiler
<1>3. /\ o \in Outs /\ boots' \in [Builds -> BootType]
      /\ \A c \in Builds : /\ boots'[c].pc = IF c = b THEN "done" ELSE boots[c].pc
                           /\ boots'[c].out = boots[c].out
                           /\ boots'[c].target = boots[c].target
                           /\ (boots'[c].overtaken <=> boots[c].overtaken)
      /\ ~record[o].complete
  BY <1>1, <1>2, Moves DEF BootPhases, Owning
<1>4. /\ ~boots[b].overtaken => binary[o] = pinned[b]
      /\ trees[o]["fe"] = pinned[b] /\ binary[o] \in Contents
      /\ pinned[b] \in Contents /\ boots[b].target \in Targets
  BY <1>1, <1>2, <1>3, BootstrapAssumption
     DEF BootInv, BootTypes, BootsApart, BootsProgress, Owning, Contents
<1>5. BootTypes'
  BY <1>2, <1>3, <1>4 DEF BootInv, BootTypes, RecordType, Recorded
<1>6. \A d \in Outs : d # o => record'[d] = record[d]
  BY <1>2
<1>7. record'[o].complete /\ record'[o].revision = pinned[b] /\ record'[o].compiler = binary[o]
  BY <1>2, <1>3 DEF BootInv, BootTypes, Recorded
<1>8. ~Overtaken(o)' => ~boots[b].overtaken
  BY <1>1, <1>3 DEF Overtaken
<1>9. BootsApart'
  BY <1>2, <1>3 DEF BootInv, BootsApart, Owning, Copying
<1>10. BootsProgress'
  <2>1. \A c \in Builds : (boots[c].pc)' \in Owning \ {"verify", "done"} =>
          (trees[boots[c].out]["fe"])' = pinned[c]
    BY <1>2, <1>3 DEF BootInv, BootsProgress, Owning
  <2>2. \A d \in Outs : (record[d].complete)' =>
          \E c \in Builds : (boots[c].pc)' = "done" /\ (boots[c].out)' = d
    <3> SUFFICES ASSUME NEW d \in Outs, (record[d].complete)'
                 PROVE  \E c \in Builds : (boots[c].pc)' = "done" /\ (boots[c].out)' = d
      OBVIOUS
    <3>1. CASE d = o
      BY <1>1, <1>3, <3>1
    <3>2. CASE d # o
      <4>1. PICK c \in Builds : boots[c].pc = "done" /\ boots[c].out = d
        BY <1>6, <3>2 DEF BootInv, BootsProgress
      <4> QED BY <1>3, <4>1
    <3> QED BY <3>1, <3>2
  <2>3. \A c \in Builds : Copying(c)' /\ ~(boots[c].overtaken)' =>
          (cache[boots[c].target])' = (trees[boots[c].out]["fe"])'
    BY <1>2, <1>3 DEF BootInv, BootsProgress, Copying
  <2>4. \A c \in Builds : (boots[c].pc)' = "record" /\ ~(boots[c].overtaken)' =>
          (binary[boots[c].out])' = pinned[c]
    BY <1>2, <1>3 DEF BootInv, BootsProgress
  <2> QED BY <2>1, <2>2, <2>3, <2>4 DEF BootsProgress
<1>11. \A d \in Outs : Overtaken(d) => Overtaken(d)'
  BY <1>3 DEF Overtaken
<1>12. ASSUME NEW d \in Outs, (record[d].complete)'
       PROVE  /\ (trees[d]["fe"])' = (record[d].revision)'
              /\ (binary[d])' = (record[d].compiler)'
              /\ ~Overtaken(d)' => (binary[d])' = (record[d].revision)'
  <2>1. CASE d = o
    BY <1>2, <1>4, <1>7, <1>8, <2>1
  <2>2. CASE d # o
    BY <1>2, <1>6, <1>11, <1>12, <2>2 DEF BootInv, RecordedCompiler
  <2> QED BY <2>1, <2>2
<1>13. CompleteStays
  BY <1>2, <1>3, <1>6 DEF CompleteStays
<1>14. RecordedCompiler' /\ CompleteStays
  BY <1>12, <1>13 DEF RecordedCompiler
<1> QED BY <1>5, <1>9, <1>10, <1>14 DEF BootInv

LEMMA BootNextInv ==
  ASSUME BootInv, BootNext
  PROVE  BootInv' /\ CompleteStays
<1>1. PICK b \in Builds : BootStep(b) \/ \E o \in Outs, t \in Targets : Start(b, o, t)
  BY DEF BootNext
<1>2. CASE checkout(b, "fe", "sonatina")
  BY <1>2, BootCheckout
<1>3. CASE checkout(b, "sonatina", "prepare")
  BY <1>3, BootCheckout
<1>4. CASE Fail(b)
  BY <1>4, BootFail DEF Fail
<1> QED
  BY <1>1, <1>2, <1>3, <1>4, BootStart, BootPrepare, BootCompile, BootVerify, BootCopy,
     BootComplete DEF BootStep

-----------------------------------------------------------------------------
(* The invariant of the scripts and of the acceptance *)

Working == {"reference", "level", "compile", "cases", "build", "checks"}
Inside == {"open", "hung"} \cup Working
ScriptPhases == {"mkdir"} \cup Inside
RunnerPhases == {"absent", "idle", "build", "fresh", "report", "stage", "running", "accepted",
                 "failed", "dead"}

RowType == [passed: Nat, complete: BOOLEAN, failed: BOOLEAN,
            executable_sha256: {None} \cup (Contents \X Nat)]
OpenReports == [exists: {TRUE}, readable: {TRUE}, source_sha256: Nat, compiler_sha256: Contents,
                levels: Seq(RowType), complete: BOOLEAN, error: BOOLEAN]
Script == [pc: ScriptPhases, stage: Reporting, path: Outs, report: OpenReports \cup {Torn}]
Others == [pc: {"none", "program"}] \cup [pc: {"exited"}, status: Nat]

RunnerType == [pc: RunnerPhases, build: Outs \cup {None}, compiler: Contents,
               checks: 0..Len(stages), complete: BOOLEAN]

Types ==
  /\ sources \in Nat /\ tools \in BOOLEAN
  /\ child \in [Runners -> Others \cup Script]
  /\ results \in [Reporting -> OpenReports \cup {NoDirectory, Torn}]
  /\ runner \in [Runners -> RunnerType]

\* A row built by the report's compiler, from the sources that were there since, and one
\* whose cases have all passed.
Built(rep, at, src) ==
  /\ at.executable_sha256 \in Contents \X Nat
  /\ at.executable_sha256[1] = rep.compiler_sha256
  /\ rep.source_sha256 <= at.executable_sha256[2] /\ at.executable_sha256[2] <= src
  /\ ~at.failed
Finished(stage, rep, at, src) ==
  /\ Built(rep, at, src) /\ at.passed = Cases
  /\ stage \in Differential => at.complete

\* How far a script has come with the report it keeps in memory.
Progress(c, compiled, src) ==
  /\ c.pc \in Working => (c.stage = "cli-smoke" <=> c.pc \in {"build", "checks"})
  /\ c.pc \in Working =>
       /\ c.report \in OpenReports /\ ~c.report.complete /\ ~c.report.error
       /\ c.report.compiler_sha256 = compiled /\ c.report.source_sha256 <= src
       /\ \A i \in 1..Len(c.report.levels) :
            (i < Len(c.report.levels) \/ c.pc \in {"reference", "level", "build"}) =>
              Finished(c.stage, c.report, c.report.levels[i], src)
  /\ c.pc \in {"compile", "cases", "checks"} => Len(c.report.levels) > 0
  /\ c.pc \in {"cases", "checks"} =>
       Built(c.report, c.report.levels[Len(c.report.levels)], src)

\* Every script works for a run that waits for it or has been killed, with a compiler
\* whose build is complete.
ScriptInv(r) ==
  child[r].pc \in ScriptPhases =>
    /\ runner[r].pc \in {"running", "dead"} /\ Stage(r) = child[r].stage
    /\ runner[r].checks < Len(stages)
    /\ child[r].path = runner[r].build /\ record[runner[r].build].complete
    /\ runner[r].compiler = record[runner[r].build].compiler
    /\ Progress(child[r], binary[runner[r].build], sources)
ChildrenInv ==
  \A r \in Runners :
    ScriptInv(r)
    /\ (child[r].pc = "program" /\ runner[r].pc = "running" => Stage(r) \notin Reporting)

RunnersInv ==
  \A r \in Runners :
    /\ runner[r].pc = "build" => runner[r].build \in Outs
    /\ runner[r].pc \in {"absent", "idle", "build", "fresh", "report"} => runner[r].checks = 0
    /\ runner[r].pc \in {"fresh", "report", "stage", "running", "accepted"} =>
         /\ runner[r].build \in Outs /\ record[runner[r].build].complete
         /\ runner[r].compiler = record[runner[r].build].compiler
    /\ runner[r].pc = "running" => runner[r].checks < Len(stages)
    /\ runner[r].pc = "accepted" => runner[r].complete /\ runner[r].checks = Len(stages)

\* A run whose script is at work on a stage's directory, has just left it with success,
\* or did so earlier and has not failed since.
WorksOn(r, s) == child[r].pc \in Inside /\ child[r].stage = s
Leaves(r, s) == runner[r].pc = "running" /\ child[r].pc = "exited" /\ child[r].status = 0
                /\ Stage(r) = s
Passed(r, s) == runner[r].complete /\ \E i \in 1..runner[r].checks : stages[i] = s
Owns(r, s) == WorksOn(r, s) \/ Leaves(r, s) \/ Passed(r, s)

\* A whole report of the compiler that a run accepts.
Whole(rep, s, compiled) ==
  /\ rep.exists /\ rep.readable /\ rep.complete
  /\ checked(s, rep) /\ rep.compiler_sha256 = compiled

OwnersInv ==
  \A s \in Reporting :
    /\ \A r, q \in Runners : Owns(r, s) /\ Owns(q, s) => r = q
    /\ \A r \in Runners : Owns(r, s) => results[s].exists
    /\ \A r \in Runners : Leaves(r, s) \/ Passed(r, s) => Whole(results[s], s, runner[r].compiler)

Inv == BootInv /\ Types /\ ChildrenInv /\ RunnersInv /\ OwnersInv /\ ReportsHold

-----------------------------------------------------------------------------
(* The stages *)

\* Each script is one of the stages, once.
LEMMA StagesFacts ==
  /\ Len(stages) = Len(Levels) + 6 /\ Len(stages) \in Nat
  /\ \A s \in Reporting : \E i \in 1..Len(stages) : stages[i] = s
  /\ \A i, j \in 1..Len(stages) : stages[i] = stages[j] /\ stages[i] \in Reporting => i = j
<1> DEFINE first == [i \in 1..Len(Levels) |-> "workspace"]
           last == <<"cli-smoke", "osaka-frames", "osaka-state", "tools", "session", "arithmetic">>
           Names == {"workspace", "cli-smoke", "osaka-frames", "osaka-state", "tools", "session",
                     "arithmetic"}
<1>1. PICK n \in Nat : n = Len(Levels)
  BY ScriptsAssumption
<1>2. first \in Seq(Names) /\ Len(first) = n
  BY <1>1
<1>3. last \in Seq(Names) /\ Len(last) = 6
  OBVIOUS
<1>4. stages = first \o last
  BY DEF stages
<1>5. Len(stages) = n + 6
  BY <1>2, <1>3, <1>4
<1>6. \A i \in 1..n + 6 : stages[i] = IF i <= n THEN "workspace" ELSE last[i - n]
  <2> TAKE i \in 1..n + 6
  <2>1. stages[i] = IF i <= n THEN first[i] ELSE last[i - n]
    <3> HIDE DEF first, last, Names
    <3>1. \A j \in 1..Len(first) + Len(last) :
            (first \o last)[j] = IF j <= Len(first) THEN first[j] ELSE last[j - Len(first)]
      BY <1>2, <1>3, ConcatProperties, Zenon
    <3>2. i \in 1..Len(first) + Len(last)
      BY <1>2, <1>3
    <3>3. (first \o last)[i] = IF i <= n THEN first[i] ELSE last[i - n]
      BY <1>2, <3>1, <3>2, Zenon
    <3> QED BY <1>4, <3>3, Zenon
  <2> QED BY <1>1, <2>1
<1>7. \A i \in 1..n + 6 : /\ stages[i] = "cli-smoke" <=> i = n + 1
                          /\ stages[i] = "osaka-frames" <=> i = n + 2
                          /\ stages[i] = "osaka-state" <=> i = n + 3
  BY <1>6
<1>8. Reporting = {"cli-smoke", "osaka-frames", "osaka-state"}
  BY DEF Reporting, Differential
<1> HIDE DEF first, last
<1> QED BY <1>1, <1>5, <1>7, <1>8

-----------------------------------------------------------------------------
(* How processes and runs may move *)

LEMMA BootUnchanged ==
  ASSUME BootInv, UNCHANGED bootVars
  PROVE  BootInv'
BY DEF bootVars, BootInv, BootTypes, BootsApart, BootsProgress, Copying, RecordedCompiler, Overtaken

\* The stage a script works at is not one its run has passed.
LEMMA NotPassedYet ==
  ASSUME Inv, NEW r \in Runners, runner[r].checks < Len(stages), Stage(r) \in Reporting
  PROVE  ~Passed(r, Stage(r))
<1>1. runner[r].checks \in Nat /\ runner[r].checks + 1 \in 1..Len(stages)
  BY StagesFacts DEF Inv, Types, RunnerType
<1> QED BY <1>1, StagesFacts DEF Passed, Stage

\* A script moves on, and its stage's report may change: while it has the directory,
\* or when it makes it.
LEMMA ChildMoves ==
  ASSUME Inv, NEW r \in Runners, NEW s \in Reporting,
         child[r].pc \in ScriptPhases, child[r].stage = s,
         NEW c \in Others \cup Script, child' = [child EXCEPT ![r] = c],
         NEW rep \in OpenReports \cup {NoDirectory, Torn}, results' = [results EXCEPT ![s] = rep],
         UNCHANGED <<bootVars, sources, runner, tools>>,
         c.pc # "program",
         c.pc \in ScriptPhases =>
           /\ c.stage = s /\ c.path = child[r].path
           /\ Progress(c, binary[runner[r].build], sources),
         \/ rep = results[s]
         \/ rep.exists /\ (child[r].pc \in Inside \/ ~results[s].exists),
         rep.exists /\ rep.readable /\ rep.complete => checked(s, rep),
         c.pc \in Inside => rep.exists /\ (child[r].pc \in Inside \/ ~results[s].exists),
         c.pc = "exited" /\ c.status = 0 =>
           child[r].pc \in Inside /\ Whole(rep, s, runner[r].compiler)
  PROVE  Inv'
<1>1. /\ BootInv /\ Types /\ ScriptInv(r) /\ ChildrenInv /\ RunnersInv /\ OwnersInv /\ ReportsHold
      /\ Stage(r) = s /\ runner[r].checks < Len(stages)
  BY DEF Inv, ChildrenInv, ScriptInv
<1>2. BootInv' /\ record' = record /\ binary' = binary
  BY <1>1, BootUnchanged DEF bootVars
<1>3. Types'
  BY <1>1 DEF Types
<1>4. /\ \A q \in Runners : child'[q] = IF q = r THEN c ELSE child[q]
      /\ \A t \in Reporting : results'[t] = IF t = s THEN rep ELSE results[t]
  BY <1>1 DEF Types
<1>5. ChildrenInv'
  <2> SUFFICES ASSUME NEW q \in Runners
               PROVE  /\ ScriptInv(q)'
                      /\ child'[q].pc = "program" /\ runner'[q].pc = "running" =>
                           stages[runner'[q].checks + 1] \notin Reporting
    BY DEF ChildrenInv, Stage
  <2>1. CASE q = r
    BY <1>1, <1>2, <1>4, <2>1 DEF ScriptInv, Stage
  <2>2. CASE q # r
    BY <1>1, <1>2, <1>4, <2>2 DEF ChildrenInv, ScriptInv, Stage
  <2> QED BY <2>1, <2>2
<1>6. RunnersInv'
  BY <1>1, <1>2 DEF RunnersInv
<1>7. ReportsHold'
  BY <1>1, <1>4 DEF ReportsHold
<1>8. ~Passed(r, s) /\ ~Leaves(r, s)
  <2>1. child[r].pc # "exited"
    BY DEF ScriptPhases, Inside, Working
  <2> QED BY <1>1, <2>1, NotPassedYet DEF Leaves
<1>9. \A q \in Runners, t \in Reporting : Passed(q, t)' = Passed(q, t)
  BY DEF Passed
<1>10. \A q \in Runners \ {r}, t \in Reporting : /\ WorksOn(q, t)' = WorksOn(q, t)
                                                  /\ Leaves(q, t)' = Leaves(q, t)
  BY <1>4 DEF WorksOn, Leaves, Stage
<1>11. \A t \in Reporting : /\ WorksOn(r, t)' => t = s /\ c.pc \in Inside
                            /\ Leaves(r, t)' => t = s /\ c.pc = "exited" /\ c.status = 0
  BY <1>1, <1>4 DEF WorksOn, Leaves, Stage, Inside, Working, ScriptPhases
<1>12. child[r].pc \in Inside => WorksOn(r, s)
  BY DEF WorksOn
<1>13. OwnersInv'
  <2> SUFFICES ASSUME NEW t \in Reporting
               PROVE  /\ \A p, q \in Runners : Owns(p, t)' /\ Owns(q, t)' => p = q
                      /\ \A q \in Runners : Owns(q, t)' => results'[t].exists
                      /\ \A q \in Runners : Leaves(q, t)' \/ Passed(q, t)' =>
                           Whole(results'[t], t, runner[q].compiler)
    BY DEF OwnersInv
  <2>1. /\ \A p, q \in Runners : Owns(p, t) /\ Owns(q, t) => p = q
        /\ \A q \in Runners : Owns(q, t) => results[t].exists
        /\ \A q \in Runners : Leaves(q, t) \/ Passed(q, t) =>
             Whole(results[t], t, runner[q].compiler)
    BY <1>1 DEF OwnersInv
  <2>2. CASE t # s
    BY <1>4, <1>9, <1>10, <1>11, <2>1, <2>2 DEF Owns
  <2>3. CASE t = s
    <3>1. \A q \in Runners \ {r} : Owns(q, s)' = Owns(q, s)
      BY <1>9, <1>10 DEF Owns
    <3>2. Owns(r, s)' => child[r].pc \in Inside \/ ~results[s].exists
      BY <1>8, <1>9, <1>11 DEF Owns
    <3>3. child[r].pc \in Inside => Owns(r, s)
      BY <1>12 DEF Owns
    <3>4. \A q \in Runners \ {r} : Owns(q, s) => child[r].pc \notin Inside /\ results[s].exists
      BY <2>1, <2>3, <3>3
    <3>5. \A p, q \in Runners : Owns(p, s)' /\ Owns(q, s)' => p = q
      BY <2>1, <2>3, <3>1, <3>2, <3>4
    <3>6. \A q \in Runners \ {r} : Owns(q, s) => rep = results[s]
      BY <3>4
    <3>7. Owns(r, s)' => rep.exists
      BY <1>8, <1>9, <1>11 DEF Owns, Whole
    <3>8. \A q \in Runners : Owns(q, s)' => rep.exists
      BY <2>1, <2>3, <3>1, <3>6, <3>7
    <3>9. \A q \in Runners \ {r} : Leaves(q, s)' \/ Passed(q, s)' =>
            Whole(rep, s, runner[q].compiler)
      BY <1>9, <1>10, <2>1, <2>3, <3>6 DEF Owns
    <3>10. Leaves(r, s)' \/ Passed(r, s)' => Whole(rep, s, runner[r].compiler)
      BY <1>8, <1>9, <1>11
    <3> QED BY <1>4, <2>3, <3>5, <3>8, <3>9, <3>10
  <2> QED BY <2>2, <2>3
<1> QED BY <1>2, <1>3, <1>5, <1>6, <1>7, <1>13 DEF Inv

-----------------------------------------------------------------------------
(* The scripts *)

\* What a script that is under way works with.
LEMMA ScriptFacts ==
  ASSUME Inv, NEW r \in Runners, child[r].pc \in ScriptPhases
  PROVE  /\ child[r] \in Script /\ child[r].stage \in Reporting /\ child[r].path \in Outs
         /\ Progress(child[r], binary[runner[r].build], sources)
         /\ compiler(child[r].path) = binary[runner[r].build]
         /\ runner[r].compiler = binary[runner[r].build]
         /\ binary[runner[r].build] \in Contents /\ sources \in Nat
         /\ results \in [Reporting -> OpenReports \cup {NoDirectory, Torn}]
         /\ child[r].pc \in Inside => results[child[r].stage].exists
<1>1. child[r] \in Script
  BY DEF Inv, Types, Others, ScriptPhases, Inside, Working
<1>2. child[r].stage \in Reporting /\ child[r].path \in Outs
  BY <1>1 DEF Script
<1>3. ScriptInv(r) /\ RecordedCompiler /\ OwnersInv /\ BootTypes
  BY DEF Inv, ChildrenInv, BootInv
<1>4. child[r].pc \in Inside => results[child[r].stage].exists
  BY <1>2, <1>3 DEF OwnersInv, Owns, WorksOn
<1>5. compiler(child[r].path) = binary[runner[r].build]
      /\ runner[r].compiler = binary[runner[r].build]
  BY <1>2, <1>3 DEF ScriptInv, RecordedCompiler, Overtaken, compiler
<1> QED BY <1>1, <1>2, <1>3, <1>4, <1>5 DEF ScriptInv, Inv, Types, BootTypes

\* A report is in a directory, torn or not.
LEMMA ReportsExist ==
  /\ \A rep \in OpenReports \cup {Torn} : rep.exists
  /\ ~Torn.readable
  /\ \A rep \in OpenReports : rep.exists /\ rep.readable
<1>1. Torn.exists = TRUE /\ Torn.readable = FALSE
  BY Zenon DEF Torn
<1>2. \A rep \in OpenReports : rep.exists = TRUE /\ rep.readable = TRUE
  BY DEF OpenReports
<1>3. ASSUME NEW rep \in OpenReports \cup {Torn} PROVE rep.exists
  <2>1. CASE rep \in OpenReports
    BY <1>2, <2>1, Zenon
  <2>2. CASE rep = Torn
    BY <1>1, <2>2, Zenon
  <2> QED BY <2>1, <2>2, Zenon
<1> QED BY <1>1, <1>2, <1>3, Zenon

\* A script that ends without success leaves a report that is not complete, or none.
LEMMA Fails ==
  ASSUME Inv, NEW r \in Runners, child[r].pc \in ScriptPhases,
         NEW status \in Nat \ {0}, Set(r, Exited(status)),
         UNCHANGED <<bootVars, sources, runner, tools>>,
         \/ results' = results
         \/ child[r].pc \in Inside /\ \E rep \in OpenReports \cup {Torn} :
              ~(rep.readable /\ rep.complete) /\ Saves(r, rep)
  PROVE  Inv'
<1>1. PICK s \in Reporting : s = child[r].stage
  BY ScriptFacts
<1>2. results \in [Reporting -> OpenReports \cup {NoDirectory, Torn}]
      /\ (results[s].exists /\ results[s].readable /\ results[s].complete => checked(s, results[s]))
  BY ScriptFacts DEF Inv, ReportsHold
<1>3. PICK c \in Others : c = Exited(status) /\ c.pc = "exited" /\ c.status = status
  BY DEF Exited, Others
<1>4. child' = [child EXCEPT ![r] = c]
  BY <1>3 DEF Set
<1>5. c.pc \notin ScriptPhases /\ c.pc \notin Inside /\ c.status # 0
  BY <1>3 DEF ScriptPhases, Inside, Working
<1>6. CASE results' = results
  <2>1. results' = [results EXCEPT ![s] = results[s]]
    BY <1>2, <1>6
  <2> QED BY <1>1, <1>2, <1>3, <1>4, <1>5, <2>1, ChildMoves, ZenonT(60)
<1>7. ASSUME child[r].pc \in Inside, NEW rep \in OpenReports \cup {Torn},
             ~(rep.readable /\ rep.complete), Saves(r, rep)
      PROVE  Inv'
  <2>1. results' = [results EXCEPT ![s] = rep]
    BY <1>1, <1>7 DEF Saves
  <2>2. rep.exists /\ rep \in OpenReports \cup {NoDirectory, Torn}
    BY <1>7, ReportsExist
  <2> QED BY <1>1, <1>3, <1>4, <1>5, <1>7, <2>1, <2>2, ChildMoves
<1> QED BY <1>6, <1>7

\* A script goes on, and saves its report or does not.
LEMMA GoesOn ==
  ASSUME Inv, NEW r \in Runners, child[r].pc \in Inside,
         NEW c \in Script, c.stage = child[r].stage, c.path = child[r].path, c.pc \in Inside,
         Progress(c, binary[runner[r].build], sources), Set(r, c),
         UNCHANGED <<bootVars, sources, runner, tools>>,
         \/ results' = results
         \/ c.report \in OpenReports /\ ~c.report.complete /\ Saves(r, c.report)
  PROVE  Inv'
<1>1. PICK s \in Reporting : s = child[r].stage
  BY ScriptFacts DEF ScriptPhases
<1>2. /\ results \in [Reporting -> OpenReports \cup {NoDirectory, Torn}]
      /\ results[s].exists /\ results[s].readable /\ results[s].complete => checked(s, results[s])
      /\ results[s].exists
  BY <1>1, ScriptFacts DEF Inv, ReportsHold, ScriptPhases
<1>3. child' = [child EXCEPT ![r] = c] /\ c.pc \notin {"program", "exited"}
      /\ child[r].pc \in ScriptPhases
  BY DEF Set, Inside, Working, ScriptPhases
<1>4. CASE results' = results
  <2>1. PICK rep \in OpenReports \cup {NoDirectory, Torn} : rep = results[s]
    BY <1>2
  <2>2. results' = [results EXCEPT ![s] = rep] /\ rep.exists
    BY <1>2, <1>4, <2>1
  <2>3. rep.exists /\ rep.readable /\ rep.complete => checked(s, rep)
    BY <1>2, <2>1
  <2>4. c \in Others \cup Script /\ c.pc # "program" /\ c.pc # "exited"
    BY <1>3
  <2> QED BY <1>1, <1>3, <2>1, <2>2, <2>3, <2>4, ChildMoves
<1>5. CASE c.report \in OpenReports /\ ~c.report.complete /\ Saves(r, c.report)
  <2>1. PICK rep \in OpenReports : rep = c.report
    BY <1>5
  <2>2. results' = [results EXCEPT ![s] = rep] /\ ~rep.complete
    BY <1>1, <1>5, <2>1 DEF Saves
  <2>3. rep.exists /\ rep \in OpenReports \cup {NoDirectory, Torn}
    BY DEF OpenReports
  <2>4. c \in Others \cup Script /\ c.pc # "program" /\ c.pc # "exited"
    BY <1>3
  <2> QED BY <1>1, <1>2, <1>3, <2>2, <2>3, <2>4, ChildMoves
<1> QED BY <1>4, <1>5

LEMMA MkdirStep ==
  ASSUME Inv, NEW r \in Runners, mkdir(r), UNCHANGED <<bootVars, runner, tools>>
  PROVE  Inv'
<1>1. child[r].pc = "mkdir" /\ child[r].pc \in ScriptPhases /\ UNCHANGED sources
  BY DEF mkdir, Runs, ScriptPhases
<1>2. PICK s \in Reporting : s = child[r].stage
  BY <1>1, ScriptFacts
<1>3. CASE results[s].exists
  <2>1. Set(r, Exited(1)) /\ results' = results
    BY <1>2, <1>3 DEF mkdir
  <2>2. 1 \in Nat \ {0}
    OBVIOUS
  <2> QED BY <1>1, <2>1, <2>2, Fails
<1>4. CASE ~results[s].exists
  <2>1. child[r] \in Script /\ "open" \in ScriptPhases
    BY <1>1, ScriptFacts DEF ScriptPhases, Inside
  <2>2. [child[r] EXCEPT !.pc = "open"] \in Script
    BY <2>1 DEF Script
  <2>3. PICK c \in Script : c = [child[r] EXCEPT !.pc = "open"]
    BY <2>2
  <2>4. c.stage = s /\ c.path = child[r].path /\ c.pc = "open"
    BY <1>2, <2>1, <2>3 DEF Script
  <2>5. PICK rep \in OpenReports \cup {NoDirectory, Torn} :
          rep = Torn /\ rep.exists /\ ~rep.readable
    BY ReportsExist
  <2>6. child' = [child EXCEPT ![r] = c] /\ results' = [results EXCEPT ![s] = rep]
    BY <1>2, <1>4, <2>3, <2>5 DEF mkdir, Set, Saves
  <2>7. Progress(c, binary[runner[r].build], sources)
    BY <2>4 DEF Progress, Working
  <2>8. c \in Others \cup Script /\ c.pc # "program" /\ c.pc # "exited"
    BY <2>4
  <2> QED BY <1>1, <1>2, <1>4, <2>4, <2>5, <2>6, <2>7, <2>8, ChildMoves
<1> QED BY <1>3, <1>4

LEMMA OpensStep ==
  ASSUME Inv, NEW r \in Runners, child[r].pc = "open", NEW next \in {"reference", "build"},
         child[r].stage = "cli-smoke" <=> next = "build", Opens(r, next),
         UNCHANGED <<bootVars, runner, tools>>
  PROVE  Inv'
<1>1. child[r].pc \in ScriptPhases /\ child[r].pc \in Inside
  BY DEF ScriptPhases, Inside
<1>2. /\ child[r] \in Script /\ binary[runner[r].build] \in Contents /\ sources \in Nat
      /\ compiler(child[r].path) = binary[runner[r].build]
  BY <1>1, ScriptFacts
<1>3. PICK rep \in OpenReports :
        /\ rep = Report(sources, compiler(child[r].path))
        /\ rep.levels = <<>> /\ ~rep.complete /\ ~rep.error
        /\ rep.compiler_sha256 = binary[runner[r].build] /\ rep.source_sha256 = sources
  <2> DEFINE opened == Report(sources, compiler(child[r].path))
  <2>1. opened.levels \in Seq(RowType)
    BY DEF Report
  <2>2. opened \in OpenReports
    BY <1>2, <2>1 DEF Report, OpenReports
  <2>3. /\ opened.levels = <<>> /\ ~opened.complete /\ ~opened.error
        /\ opened.compiler_sha256 = binary[runner[r].build] /\ opened.source_sha256 = sources
    BY <1>2 DEF Report
  <2> HIDE DEF opened
  <2>4. opened = Report(sources, compiler(child[r].path))
    BY DEF opened
  <2> QED BY <2>2, <2>3, <2>4
<1>4. PICK c \in Script : /\ c = [child[r] EXCEPT !.report = rep, !.pc = next]
                          /\ c.stage = child[r].stage /\ c.path = child[r].path
                          /\ c.pc = next /\ c.report = rep
  <2>1. next \in ScriptPhases
    BY DEF ScriptPhases, Inside, Working
  <2>2. [child[r] EXCEPT !.report = rep, !.pc = next] \in Script
    BY <1>2, <2>1 DEF Script
  <2>3. PICK c \in Script : c = [child[r] EXCEPT !.report = rep, !.pc = next]
    BY <2>2
  <2>4. c.stage = child[r].stage /\ c.path = child[r].path /\ c.pc = next /\ c.report = rep
    BY <1>2, <2>3 DEF Script
  <2> QED BY <2>3, <2>4
<1>5. Set(r, c) /\ Saves(r, rep) /\ UNCHANGED sources
  BY <1>3, <1>4 DEF Opens
<1>6. Progress(c, binary[runner[r].build], sources)
  BY <1>2, <1>3, <1>4 DEF Progress
<1>7. c.pc \in Inside
  BY <1>4 DEF Inside, Working
<1> QED BY <1>1, <1>3, <1>4, <1>5, <1>6, <1>7, GoesOn

-----------------------------------------------------------------------------
(* The rows of a report *)

\* What a script at work has in memory.
LEMMA AtWork ==
  ASSUME Inv, NEW r \in Runners, child[r].pc \in Working
  PROVE  \E c \in Script, rep \in OpenReports, n \in Nat :
           /\ c = child[r] /\ rep = c.report /\ rep = report(r) /\ n = Len(rep.levels)
           /\ rep.levels \in Seq(RowType) /\ ~rep.complete /\ ~rep.error
           /\ rep.compiler_sha256 = binary[runner[r].build] /\ rep.source_sha256 <= sources
           /\ \A i \in 1..n : (i < n \/ c.pc \in {"reference", "level", "build"}) =>
                Finished(c.stage, rep, rep.levels[i], sources)
           /\ c.pc \in {"compile", "cases", "checks"} => n > 0
           /\ c.pc \in {"cases", "checks"} => Built(rep, rep.levels[n], sources)
           /\ c.stage = "cli-smoke" <=> c.pc \in {"build", "checks"}
<1>1. child[r].pc \in ScriptPhases
  BY DEF ScriptPhases, Inside
<1>2. PICK c \in Script : c = child[r]
  BY <1>1, ScriptFacts
<1>3. Progress(c, binary[runner[r].build], sources)
  BY <1>1, <1>2, ScriptFacts
<1>4. PICK rep \in OpenReports : rep = c.report
  BY <1>2, <1>3 DEF Progress
<1>5. PICK n \in Nat : n = Len(rep.levels) /\ rep.levels \in Seq(RowType)
  BY DEF OpenReports
<1>6. rep = report(r)
  BY <1>2, <1>4 DEF report
<1> QED BY <1>2, <1>3, <1>4, <1>5, <1>6 DEF Progress

\* The last row of a report is replaced.
Replaced(old, new) == [old EXCEPT !.levels[Len(old.levels)] = new]

LEMMA RowReplaced ==
  ASSUME NEW old \in OpenReports, NEW n \in Nat, n = Len(old.levels), n > 0, NEW new \in RowType
  PROVE  \E rep \in OpenReports :
           /\ rep = Replaced(old, new) /\ Len(rep.levels) = n
           /\ \A i \in 1..n : rep.levels[i] = IF i = n THEN new ELSE old.levels[i]
           /\ rep.complete = old.complete /\ rep.error = old.error
           /\ rep.compiler_sha256 = old.compiler_sha256 /\ rep.source_sha256 = old.source_sha256
<1>1. old.levels \in Seq(RowType)
  BY DEF OpenReports
<1>2. PICK levels \in Seq(RowType) : levels = [old.levels EXCEPT ![n] = new]
  <2>1. [old.levels EXCEPT ![n] = new] \in Seq(RowType)
    BY <1>1, ExceptSeq
  <2> QED BY <2>1
<1>3. Len(levels) = n /\ \A i \in 1..n : levels[i] = IF i = n THEN new ELSE old.levels[i]
  BY <1>1, <1>2
<1>4. [old EXCEPT !.levels = levels] \in OpenReports
  BY <1>2 DEF OpenReports
<1>5. PICK rep \in OpenReports : rep = [old EXCEPT !.levels = levels]
  BY <1>4
<1>6. rep = Replaced(old, new)
  BY <1>2, <1>5 DEF Replaced
<1>7. /\ rep.levels = levels
      /\ rep.complete = old.complete /\ rep.error = old.error
      /\ rep.compiler_sha256 = old.compiler_sha256 /\ rep.source_sha256 = old.source_sha256
  BY <1>5 DEF OpenReports
<1> QED BY <1>3, <1>6, <1>7

\* A row is added to a report.
Added(old, new) == [old EXCEPT !.levels = Append(@, new)]

LEMMA RowAdded ==
  ASSUME NEW old \in OpenReports, NEW n \in Nat, n = Len(old.levels), NEW new \in RowType
  PROVE  \E rep \in OpenReports :
           /\ rep = Added(old, new) /\ Len(rep.levels) = n + 1
           /\ \A i \in 1..n + 1 : rep.levels[i] = IF i = n + 1 THEN new ELSE old.levels[i]
           /\ rep.complete = old.complete /\ rep.error = old.error
           /\ rep.compiler_sha256 = old.compiler_sha256 /\ rep.source_sha256 = old.source_sha256
<1>1. old.levels \in Seq(RowType)
  BY DEF OpenReports
<1>2. PICK levels \in Seq(RowType) : levels = Append(old.levels, new)
  <2>1. Append(old.levels, new) \in Seq(RowType)
    BY <1>1, AppendProperties
  <2> QED BY <2>1
<1>3. Len(levels) = n + 1
      /\ \A i \in 1..n + 1 : levels[i] = IF i = n + 1 THEN new ELSE old.levels[i]
  BY <1>1, <1>2
<1>4. [old EXCEPT !.levels = levels] \in OpenReports
  BY <1>2 DEF OpenReports
<1>5. PICK rep \in OpenReports : rep = [old EXCEPT !.levels = levels]
  BY <1>4
<1>6. rep = Added(old, new)
  BY <1>2, <1>5 DEF Added
<1>7. /\ rep.levels = levels
      /\ rep.complete = old.complete /\ rep.error = old.error
      /\ rep.compiler_sha256 = old.compiler_sha256 /\ rep.source_sha256 = old.source_sha256
  BY <1>5 DEF OpenReports
<1> QED BY <1>3, <1>6, <1>7

\* The rows of a report do not change and its verdict does.
Verdict(old, complete, error) == [old EXCEPT !.complete = complete, !.error = error]

LEMMA Concluded ==
  ASSUME NEW old \in OpenReports, NEW complete \in BOOLEAN, NEW error \in BOOLEAN
  PROVE  \E rep \in OpenReports :
           /\ rep = Verdict(old, complete, error)
           /\ rep.levels = old.levels /\ rep.complete = complete /\ rep.error = error
           /\ rep.compiler_sha256 = old.compiler_sha256 /\ rep.source_sha256 = old.source_sha256
<1>1. Verdict(old, complete, error) \in OpenReports
  BY DEF OpenReports, Verdict
<1>2. PICK rep \in OpenReports : rep = Verdict(old, complete, error)
  BY <1>1
<1> QED BY <1>2 DEF OpenReports, Verdict

\* A script takes a step with its report.
Turn(old, pc, rep) == [old EXCEPT !.pc = pc, !.report = rep]

LEMMA Turned ==
  ASSUME NEW old \in Script, NEW pc \in ScriptPhases, NEW rep \in OpenReports
  PROVE  \E c \in Script :
           /\ c = Turn(old, pc, rep)
           /\ c.stage = old.stage /\ c.path = old.path /\ c.pc = pc /\ c.report = rep
<1>1. Turn(old, pc, rep) \in Script
  BY DEF Script, Turn
<1>2. PICK c \in Script : c = Turn(old, pc, rep)
  BY <1>1
<1> QED BY <1>2 DEF Script, Turn

LEMMA TurnedPhase ==
  ASSUME NEW old \in Script, NEW pc \in ScriptPhases
  PROVE  \E c \in Script :
           /\ c = [old EXCEPT !.pc = pc]
           /\ c.stage = old.stage /\ c.path = old.path /\ c.pc = pc /\ c.report = old.report
<1>1. [old EXCEPT !.pc = pc] \in Script
  BY DEF Script
<1>2. PICK c \in Script : c = [old EXCEPT !.pc = pc]
  BY <1>1
<1> QED BY <1>2 DEF Script

LEMMA TurnedReport ==
  ASSUME NEW old \in Script, NEW rep \in OpenReports
  PROVE  \E c \in Script :
           /\ c = [old EXCEPT !.report = rep]
           /\ c.stage = old.stage /\ c.path = old.path /\ c.pc = old.pc /\ c.report = rep
<1>1. [old EXCEPT !.report = rep] \in Script
  BY DEF Script
<1>2. PICK c \in Script : c = [old EXCEPT !.report = rep]
  BY <1>1
<1> QED BY <1>2 DEF Script

LEMMA NewRow ==
  ASSUME NEW sha \in {None} \cup (Contents \X Nat)
  PROVE  \E new \in RowType : /\ new = Row(sha) /\ new.passed = 0 /\ ~new.failed
                              /\ new.executable_sha256 = sha
<1>1. Row(sha) \in RowType
  BY DEF Row, RowType
<1>2. PICK new \in RowType : new = Row(sha)
  BY <1>1
<1> QED BY <1>2 DEF Row

\* A script goes on with its work.
LEMMA Continues ==
  ASSUME Inv, NEW r \in Runners, child[r].pc \in Working,
         NEW c \in Script, Set(r, c), c.stage = child[r].stage, c.path = child[r].path,
         c.pc \in Working, c.stage = "cli-smoke" <=> c.pc \in {"build", "checks"},
         NEW rep \in OpenReports, c.report = rep, ~rep.complete, ~rep.error,
         rep.compiler_sha256 = binary[runner[r].build], rep.source_sha256 <= sources,
         NEW n \in Nat, n = Len(rep.levels),
         \A i \in 1..n : (i < n \/ c.pc \in {"reference", "level", "build"}) =>
           Finished(c.stage, rep, rep.levels[i], sources),
         c.pc \in {"compile", "cases", "checks"} => n > 0,
         c.pc \in {"cases", "checks"} => Built(rep, rep.levels[n], sources),
         UNCHANGED <<bootVars, sources, runner, tools>>,
         results' = results \/ Saves(r, rep)
  PROVE  Inv'
<1>1. Progress(c, binary[runner[r].build], sources)
  BY DEF Progress
<1>2. child[r].pc \in Inside /\ c.pc \in Inside
  BY DEF Inside
<1>3. results' = results
      \/ (c.report \in OpenReports /\ ~c.report.complete /\ Saves(r, c.report))
  OBVIOUS
<1> QED BY <1>1, <1>2, <1>3, GoesOn

-----------------------------------------------------------------------------
(* The steps of the differential scripts *)

LEMMA ReferenceStep ==
  ASSUME Inv, NEW r \in Runners, Reference(r), UNCHANGED <<bootVars, runner, tools>>
  PROVE  Inv'
<1>1. /\ child[r].pc = "reference" /\ child[r].pc \in Working /\ "level" \in ScriptPhases
      /\ "level" \in Working
  BY DEF Reference, Runs, Working, ScriptPhases, Inside
<1>2. PICK o \in Script, rep \in OpenReports, n \in Nat :
           /\ o = child[r] /\ rep = o.report /\ rep = report(r) /\ n = Len(rep.levels)
           /\ ~rep.complete /\ ~rep.error
           /\ rep.compiler_sha256 = binary[runner[r].build] /\ rep.source_sha256 <= sources
           /\ \A i \in 1..n : Finished(o.stage, rep, rep.levels[i], sources)
           /\ o.stage # "cli-smoke"
  BY <1>1, AtWork
<1>0. PICK pc \in ScriptPhases : pc = "level"
  BY <1>1
<1>3. PICK c \in Script :
        /\ c = [o EXCEPT !.pc = pc] /\ c.stage = o.stage /\ c.path = o.path
        /\ c.pc = pc /\ c.report = o.report
  BY TurnedPhase
<1>4. Set(r, c) /\ Saves(r, rep) /\ UNCHANGED sources
  BY <1>0, <1>2, <1>3 DEF Reference
<1>5. /\ c.stage = child[r].stage /\ c.path = child[r].path /\ c.pc \in Working
      /\ c.stage = "cli-smoke" <=> c.pc \in {"build", "checks"}
      /\ c.pc = "level" /\ c.report = rep
  BY <1>0, <1>1, <1>2, <1>3
<1>6. \A i \in 1..n : (i < n \/ c.pc \in {"reference", "level", "build"}) =>
        Finished(c.stage, rep, rep.levels[i], sources)
  BY <1>2, <1>3
<1> QED BY <1>1, <1>2, <1>3, <1>4, <1>5, <1>6, Continues

LEMMA BeginLevelStep ==
  ASSUME Inv, NEW r \in Runners, BeginLevel(r), UNCHANGED <<bootVars, runner, tools>>
  PROVE  Inv'
<1>1. /\ child[r].pc = "level" /\ child[r].pc \in Working /\ "compile" \in ScriptPhases
      /\ "compile" \in Working
  BY DEF BeginLevel, Runs, Working, ScriptPhases, Inside
<1>2. PICK o \in Script, old \in OpenReports, n \in Nat :
           /\ o = child[r] /\ old = o.report /\ old = report(r) /\ n = Len(old.levels)
           /\ ~old.complete /\ ~old.error
           /\ old.compiler_sha256 = binary[runner[r].build] /\ old.source_sha256 <= sources
           /\ \A i \in 1..n : Finished(o.stage, old, old.levels[i], sources)
           /\ o.stage # "cli-smoke"
  BY <1>1, AtWork
<1>3. PICK new \in RowType : new = Row(None)
  BY NewRow
<1>4. PICK rep \in OpenReports :
           /\ rep = Added(old, new) /\ Len(rep.levels) = n + 1
           /\ \A i \in 1..n + 1 : rep.levels[i] = IF i = n + 1 THEN new ELSE old.levels[i]
           /\ rep.complete = old.complete /\ rep.error = old.error
           /\ rep.compiler_sha256 = old.compiler_sha256 /\ rep.source_sha256 = old.source_sha256
  BY <1>2, RowAdded
<1>0. PICK pc \in ScriptPhases : pc = "compile"
  BY <1>1
<1>5. PICK c \in Script :
        /\ c = Turn(o, pc, rep) /\ c.stage = o.stage
        /\ c.path = o.path /\ c.pc = pc /\ c.report = rep
  BY Turned
<1>6. Set(r, c) /\ Saves(r, rep) /\ UNCHANGED sources
  BY <1>0, <1>2, <1>3, <1>4, <1>5 DEF BeginLevel, Turn, Added
<1>7. /\ c.stage = child[r].stage /\ c.path = child[r].path /\ c.pc \in Working
      /\ c.stage = "cli-smoke" <=> c.pc \in {"build", "checks"}
      /\ c.pc = "compile"
  BY <1>0, <1>1, <1>2, <1>5
<1>8. \A i \in 1..n + 1 : (i < n + 1 \/ c.pc \in {"reference", "level", "build"}) =>
        Finished(c.stage, rep, rep.levels[i], sources)
  <2> TAKE i \in 1..n + 1
  <2> HAVE i < n + 1 \/ c.pc \in {"reference", "level", "build"}
  <2>1. i \in 1..n /\ rep.levels[i] = old.levels[i]
    BY <1>4, <1>7
  <2> QED BY <1>2, <1>4, <1>5, <2>1 DEF Finished, Built
<1>9. ~rep.complete /\ ~rep.error /\ rep.compiler_sha256 = binary[runner[r].build]
      /\ rep.source_sha256 <= sources /\ n + 1 \in Nat /\ n + 1 > 0
      /\ c.pc \notin {"cases", "checks"}
  BY <1>2, <1>4, <1>7
<1>10. PICK m \in Nat : m = n + 1
  BY <1>9
<1> QED BY <1>1, <1>4, <1>5, <1>6, <1>7, <1>8, <1>9, <1>10, Continues

\* The rows that a step makes of the last one.
LEMMA RowPassed ==
  ASSUME NEW at \in RowType
  PROVE  \E new \in RowType :
           /\ new = [at EXCEPT !.passed = @ + 1]
           /\ new.executable_sha256 = at.executable_sha256 /\ new.failed = at.failed
           /\ new.complete = at.complete
<1>1. [at EXCEPT !.passed = @ + 1] \in RowType
  BY DEF RowType
<1>2. PICK new \in RowType : new = [at EXCEPT !.passed = @ + 1]
  BY <1>1
<1> QED BY <1>2 DEF RowType

LEMMA RowFailed ==
  ASSUME NEW at \in RowType
  PROVE  \E new \in RowType : new = [at EXCEPT !.failed = TRUE]
<1>1. [at EXCEPT !.failed = TRUE] \in RowType
  BY DEF RowType
<1> QED BY <1>1

LEMMA RowComplete ==
  ASSUME NEW at \in RowType
  PROVE  \E new \in RowType :
           /\ new = [at EXCEPT !.complete = TRUE] /\ new.complete
           /\ new.executable_sha256 = at.executable_sha256 /\ new.failed = at.failed
           /\ new.passed = at.passed
<1>1. [at EXCEPT !.complete = TRUE] \in RowType
  BY DEF RowType
<1>2. PICK new \in RowType : new = [at EXCEPT !.complete = TRUE]
  BY <1>1
<1> QED BY <1>2 DEF RowType

LEMMA BuildLevelStep ==
  ASSUME Inv, NEW r \in Runners, BuildLevel(r), UNCHANGED <<bootVars, runner, tools>>
  PROVE  Inv'
<1>1. /\ child[r].pc = "compile" /\ child[r].pc \in Working /\ child[r].pc \in ScriptPhases
      /\ "cases" \in ScriptPhases /\ "cases" \in Working
  BY DEF BuildLevel, Runs, Working, ScriptPhases, Inside
<1>2. PICK o \in Script, old \in OpenReports, n \in Nat :
           /\ o = child[r] /\ old = o.report /\ old = report(r) /\ n = Len(old.levels) /\ n > 0
           /\ ~old.complete /\ ~old.error
           /\ old.compiler_sha256 = binary[runner[r].build] /\ old.source_sha256 <= sources
           /\ \A i \in 1..n : i < n => Finished(o.stage, old, old.levels[i], sources)
           /\ o.stage # "cli-smoke"
  BY <1>1, AtWork
<1>3. PICK sha \in Contents \X Nat : sha = executable(r) /\ sha[1] = binary[runner[r].build]
                                     /\ sha[2] = sources
  <2>1. /\ compiler(child[r].path) = binary[runner[r].build]
        /\ binary[runner[r].build] \in Contents /\ sources \in Nat
    BY <1>1, ScriptFacts
  <2>2. executable(r) = <<binary[runner[r].build], sources>>
    BY <2>1 DEF executable
  <2>3. <<binary[runner[r].build], sources>> \in Contents \X Nat
    BY <2>1
  <2> QED BY <2>2, <2>3
<1>4. PICK new \in RowType : /\ new = Row(sha) /\ new.passed = 0 /\ ~new.failed
                             /\ new.executable_sha256 = sha
  BY NewRow
<1>5. PICK rep \in OpenReports :
           /\ rep = Replaced(old, new) /\ Len(rep.levels) = n
           /\ \A i \in 1..n : rep.levels[i] = IF i = n THEN new ELSE old.levels[i]
           /\ rep.complete = old.complete /\ rep.error = old.error
           /\ rep.compiler_sha256 = old.compiler_sha256 /\ rep.source_sha256 = old.source_sha256
  BY <1>2, RowReplaced
<1>6. PICK pc \in ScriptPhases : pc = "cases"
  BY <1>1
<1>7. PICK c \in Script : /\ c = Turn(o, pc, rep) /\ c.stage = o.stage
                          /\ c.path = o.path /\ c.pc = pc /\ c.report = rep
  BY Turned
<1>8. Set(r, c) /\ results' = results /\ UNCHANGED sources
  BY <1>2, <1>3, <1>4, <1>5, <1>6, <1>7 DEF BuildLevel, WithRow, Replaced, Turn
<1>9. /\ c.stage = child[r].stage /\ c.path = child[r].path /\ c.pc \in Working
      /\ c.stage = "cli-smoke" <=> c.pc \in {"build", "checks"}
      /\ c.pc = "cases"
  BY <1>1, <1>2, <1>6, <1>7
<1>10. \A i \in 1..n : (i < n \/ c.pc \in {"reference", "level", "build"}) =>
        Finished(c.stage, rep, rep.levels[i], sources)
  BY <1>2, <1>5, <1>7, <1>9 DEF Finished, Built
<1>11. sources \in Nat
  BY <1>1, ScriptFacts
<1>12. Built(rep, rep.levels[n], sources)
  BY <1>2, <1>3, <1>4, <1>5, <1>11 DEF Built
<1>13. ~rep.complete /\ ~rep.error /\ rep.compiler_sha256 = binary[runner[r].build]
      /\ rep.source_sha256 <= sources
  BY <1>2, <1>5
<1> QED BY <1>1, <1>2, <1>5, <1>7, <1>8, <1>9, <1>10, <1>12, <1>13, Continues

\* A case and a check that pass, and the end of a level.
LEMMA RowStep ==
  ASSUME Inv, NEW r \in Runners, child[r].pc \in {"cases", "checks"},
         NEW new \in RowType, new.executable_sha256 = row(r).executable_sha256,
         new.failed = row(r).failed,
         NEW pc \in ScriptPhases, pc = child[r].pc \/ (pc = "level" /\ child[r].pc = "cases"),
         pc = "level" => new.passed = Cases /\ new.complete,
         NEW c \in Script, c = Turn(child[r], pc, WithRow(r, new)), Set(r, c),
         results' = results \/ Saves(r, WithRow(r, new)), UNCHANGED sources,
         UNCHANGED <<bootVars, runner, tools>>
  PROVE  Inv'
<1>1. child[r].pc \in Working /\ pc \in Working
  BY DEF Working
<1>2. PICK o \in Script, old \in OpenReports, n \in Nat :
           /\ o = child[r] /\ old = o.report /\ old = report(r) /\ n = Len(old.levels) /\ n > 0
           /\ ~old.complete /\ ~old.error
           /\ old.compiler_sha256 = binary[runner[r].build] /\ old.source_sha256 <= sources
           /\ \A i \in 1..n : i < n => Finished(o.stage, old, old.levels[i], sources)
           /\ Built(old, old.levels[n], sources)
           /\ o.stage = "cli-smoke" <=> o.pc \in {"build", "checks"}
  BY <1>1, AtWork
<1>3. PICK rep \in OpenReports :
           /\ rep = Replaced(old, new) /\ Len(rep.levels) = n
           /\ \A i \in 1..n : rep.levels[i] = IF i = n THEN new ELSE old.levels[i]
           /\ rep.complete = old.complete /\ rep.error = old.error
           /\ rep.compiler_sha256 = old.compiler_sha256 /\ rep.source_sha256 = old.source_sha256
  BY <1>2, RowReplaced
<1>4. rep = WithRow(r, new) /\ row(r) = old.levels[n]
  BY <1>2, <1>3 DEF WithRow, Replaced, row
<1>5. PICK d \in Script : /\ d = Turn(o, pc, rep) /\ d.stage = o.stage
                          /\ d.path = o.path /\ d.pc = pc /\ d.report = rep
  BY Turned
<1>6. c = d
  BY <1>2, <1>4, <1>5
<1>7. /\ c.stage = child[r].stage /\ c.path = child[r].path /\ c.pc \in Working
      /\ c.stage = "cli-smoke" <=> c.pc \in {"build", "checks"}
      /\ c.pc = pc /\ c.report = rep
  BY <1>1, <1>2, <1>5, <1>6
<1>8. rep.levels[n] = new
  BY <1>2, <1>3
<1>9. Built(rep, new, sources)
  BY <1>2, <1>3, <1>4 DEF Built
<1>10. pc = "level" => Finished(c.stage, rep, new, sources)
  BY <1>9 DEF Finished
<1>11. \A i \in 1..n : (i < n \/ c.pc \in {"reference", "level", "build"}) =>
        Finished(c.stage, rep, rep.levels[i], sources)
  <2> TAKE i \in 1..n
  <2> HAVE i < n \/ c.pc \in {"reference", "level", "build"}
  <2>1. CASE i < n
    BY <1>2, <1>3, <1>7, <2>1 DEF Finished, Built
  <2>2. CASE i = n
    BY <1>7, <1>8, <1>10, <2>2
  <2> QED BY <2>1, <2>2
<1>12. ~rep.complete /\ ~rep.error /\ rep.compiler_sha256 = binary[runner[r].build]
      /\ rep.source_sha256 <= sources
  BY <1>2, <1>3
<1>13. results' = results \/ Saves(r, rep)
  BY <1>4
<1> QED BY <1>1, <1>2, <1>3, <1>7, <1>8, <1>9, <1>11, <1>12, <1>13, Continues

LEMMA TurnSame ==
  ASSUME NEW old \in Script, NEW rep
  PROVE  [old EXCEPT !.report = rep] = Turn(old, old.pc, rep)
<1>1. [old EXCEPT !.pc = old.pc] = old
  BY DEF Script
<1>2. Turn(old, old.pc, rep) = [[old EXCEPT !.pc = old.pc] EXCEPT !.report = rep]
  BY DEF Turn
<1> QED BY <1>1, <1>2

\* What the last row holds while its cases run.
LEMMA RunningRow ==
  ASSUME Inv, NEW r \in Runners, child[r].pc \in {"cases", "checks"}
  PROVE  /\ row(r) \in RowType /\ child[r] \in Script /\ child[r].pc \in ScriptPhases
         /\ report(r) \in OpenReports /\ Len(report(r).levels) \in Nat \ {0}
<1>1. child[r].pc \in Working /\ child[r].pc \in ScriptPhases
  BY DEF Working, ScriptPhases, Inside
<1>2. PICK o \in Script, old \in OpenReports, n \in Nat :
           /\ o = child[r] /\ old = o.report /\ old = report(r) /\ n = Len(old.levels) /\ n > 0
           /\ old.levels \in Seq(RowType)
  BY <1>1, AtWork
<1> QED BY <1>1, <1>2 DEF row

LEMMA CaseStep ==
  ASSUME Inv, NEW r \in Runners, Case(r) \/ Check(r), UNCHANGED <<bootVars, runner, tools>>
  PROVE  Inv'
<1>1. child[r].pc \in {"cases", "checks"} /\ UNCHANGED sources
  BY DEF Case, Check, Runs
<1>2. PICK pc \in ScriptPhases : pc = child[r].pc
  BY <1>1, RunningRow
<1>3. PICK new \in RowType :
           /\ new = [row(r) EXCEPT !.passed = @ + 1]
           /\ new.executable_sha256 = row(r).executable_sha256 /\ new.failed = row(r).failed
  BY <1>1, RunningRow, RowPassed
<1>4. Set(r, [child[r] EXCEPT !.report = WithRow(r, new)])
      /\ (results' = results \/ Saves(r, WithRow(r, new)))
  BY <1>3 DEF Case, Check
<1>5. PICK rep \in OpenReports : rep = WithRow(r, new)
  BY <1>1, RunningRow, RowReplaced DEF WithRow, Replaced
<1>6. PICK c \in Script : c = Turn(child[r], pc, rep)
  BY <1>1, RunningRow, Turned
<1>7. c = [child[r] EXCEPT !.report = rep]
  BY <1>1, <1>2, <1>6, RunningRow, TurnSame
<1>8. Set(r, c) /\ c = Turn(child[r], pc, WithRow(r, new))
  BY <1>4, <1>5, <1>6, <1>7
<1>9. pc # "level"
  BY <1>1, <1>2
<1> QED BY <1>1, <1>2, <1>3, <1>4, <1>8, <1>9, RowStep

LEMMA EndLevelStep ==
  ASSUME Inv, NEW r \in Runners, EndLevel(r), UNCHANGED <<bootVars, runner, tools>>
  PROVE  Inv'
<1>1. child[r].pc = "cases" /\ child[r].pc \in {"cases", "checks"} /\ UNCHANGED sources
      /\ row(r).passed = Cases
  BY DEF EndLevel, Runs
<1>2. PICK pc \in ScriptPhases : pc = "level"
  BY DEF ScriptPhases, Inside, Working
<1>3. PICK new \in RowType :
           /\ new = [row(r) EXCEPT !.complete = TRUE] /\ new.complete
           /\ new.executable_sha256 = row(r).executable_sha256 /\ new.failed = row(r).failed
           /\ new.passed = row(r).passed
  BY <1>1, RunningRow, RowComplete
<1>4. Set(r, [child[r] EXCEPT !.pc = pc, !.report = WithRow(r, new)])
      /\ Saves(r, WithRow(r, new))
  BY <1>2, <1>3 DEF EndLevel
<1>5. PICK rep \in OpenReports : rep = WithRow(r, new)
  BY <1>1, RunningRow, RowReplaced DEF WithRow, Replaced
<1>6. PICK c \in Script : c = Turn(child[r], pc, rep)
  BY <1>1, RunningRow, Turned
<1>7. Set(r, c) /\ c = Turn(child[r], pc, WithRow(r, new))
  BY <1>4, <1>5, <1>6 DEF Turn
<1> QED BY <1>1, <1>2, <1>3, <1>4, <1>7, RowStep

LEMMA EndChecksStep ==
  ASSUME Inv, NEW r \in Runners, EndChecks(r), UNCHANGED <<bootVars, runner, tools>>
  PROVE  Inv'
<1>1. /\ child[r].pc = "checks" /\ child[r].pc \in Working /\ "build" \in ScriptPhases
      /\ "build" \in Working /\ row(r).passed = Cases
  BY DEF EndChecks, Runs, Working, ScriptPhases, Inside
<1>2. PICK o \in Script, rep \in OpenReports, n \in Nat :
           /\ o = child[r] /\ rep = o.report /\ rep = report(r) /\ n = Len(rep.levels)
           /\ ~rep.complete /\ ~rep.error /\ n > 0
           /\ rep.compiler_sha256 = binary[runner[r].build] /\ rep.source_sha256 <= sources
           /\ \A i \in 1..n : i < n => Finished(o.stage, rep, rep.levels[i], sources)
           /\ Built(rep, rep.levels[n], sources)
           /\ o.stage = "cli-smoke"
  BY <1>1, AtWork
<1>3. PICK pc \in ScriptPhases : pc = "build"
  BY <1>1
<1>4. PICK c \in Script :
        /\ c = [o EXCEPT !.pc = pc] /\ c.stage = o.stage /\ c.path = o.path
        /\ c.pc = pc /\ c.report = o.report
  BY TurnedPhase
<1>5. Set(r, c) /\ results' = results /\ UNCHANGED sources
  BY <1>2, <1>3, <1>4 DEF EndChecks
<1>6. /\ c.stage = child[r].stage /\ c.path = child[r].path /\ c.pc \in Working
      /\ c.stage = "cli-smoke" <=> c.pc \in {"build", "checks"}
      /\ c.pc = "build" /\ c.report = rep
  BY <1>1, <1>2, <1>3, <1>4
<1>7. rep.levels[n].passed = Cases
  BY <1>1, <1>2 DEF row
<1>8. "cli-smoke" \notin Differential
  BY DEF Differential
<1>9. Finished(c.stage, rep, rep.levels[n], sources)
  BY <1>2, <1>4, <1>7, <1>8 DEF Finished
<1>10. \A i \in 1..n : (i < n \/ c.pc \in {"reference", "level", "build"}) =>
        Finished(c.stage, rep, rep.levels[i], sources)
  <2> TAKE i \in 1..n
  <2>1. CASE i < n
    BY <1>2, <1>4, <2>1
  <2>2. CASE i = n
    BY <1>9, <2>2
  <2> QED BY <2>1, <2>2
<1> QED BY <1>1, <1>2, <1>5, <1>6, <1>10, Continues

LEMMA BuildCliStep ==
  ASSUME Inv, NEW r \in Runners, BuildCli(r), UNCHANGED <<bootVars, runner, tools>>
  PROVE  Inv'
<1>1. /\ child[r].pc = "build" /\ child[r].pc \in Working /\ child[r].pc \in ScriptPhases
      /\ "checks" \in ScriptPhases /\ "checks" \in Working
  BY DEF BuildCli, Runs, Working, ScriptPhases, Inside
<1>2. PICK o \in Script, old \in OpenReports, n \in Nat :
           /\ o = child[r] /\ old = o.report /\ old = report(r) /\ n = Len(old.levels)
           /\ ~old.complete /\ ~old.error
           /\ old.compiler_sha256 = binary[runner[r].build] /\ old.source_sha256 <= sources
           /\ \A i \in 1..n : Finished(o.stage, old, old.levels[i], sources)
           /\ o.stage = "cli-smoke"
  BY <1>1, AtWork
<1>3. PICK sha \in Contents \X Nat : sha = executable(r) /\ sha[1] = binary[runner[r].build]
                                     /\ sha[2] = sources
  <2>1. /\ compiler(child[r].path) = binary[runner[r].build]
        /\ binary[runner[r].build] \in Contents /\ sources \in Nat
    BY <1>1, ScriptFacts
  <2>2. executable(r) = <<binary[runner[r].build], sources>>
    BY <2>1 DEF executable
  <2>3. <<binary[runner[r].build], sources>> \in Contents \X Nat
    BY <2>1
  <2> QED BY <2>2, <2>3
<1>4. PICK new \in RowType : /\ new = Row(sha) /\ new.passed = 0 /\ ~new.failed
                             /\ new.executable_sha256 = sha
  BY NewRow
<1>5. PICK rep \in OpenReports :
           /\ rep = Added(old, new) /\ Len(rep.levels) = n + 1
           /\ \A i \in 1..n + 1 : rep.levels[i] = IF i = n + 1 THEN new ELSE old.levels[i]
           /\ rep.complete = old.complete /\ rep.error = old.error
           /\ rep.compiler_sha256 = old.compiler_sha256 /\ rep.source_sha256 = old.source_sha256
  BY <1>2, RowAdded
<1>6. PICK pc \in ScriptPhases : pc = "checks"
  BY <1>1
<1>7. PICK c \in Script : /\ c = Turn(o, pc, rep) /\ c.stage = o.stage
                          /\ c.path = o.path /\ c.pc = pc /\ c.report = rep
  BY Turned
<1>8. [o EXCEPT !.pc = pc, !.report.levels = Append(@, new)] = Turn(o, pc, rep)
  BY <1>2, <1>5 DEF Turn, Script, Added
<1>9. Set(r, c) /\ results' = results /\ UNCHANGED sources
  BY <1>2, <1>3, <1>4, <1>6, <1>7, <1>8 DEF BuildCli
<1>10. /\ c.stage = child[r].stage /\ c.path = child[r].path /\ c.pc \in Working
       /\ c.stage = "cli-smoke" <=> c.pc \in {"build", "checks"}
       /\ c.pc = "checks"
  BY <1>1, <1>2, <1>6, <1>7
<1>12. PICK m \in Nat : m = n + 1
  OBVIOUS
<1>11. \A i \in 1..m : (i < m \/ c.pc \in {"reference", "level", "build"}) =>
        Finished(c.stage, rep, rep.levels[i], sources)
  <2> TAKE i \in 1..m
  <2> HAVE i < m \/ c.pc \in {"reference", "level", "build"}
  <2>1. i < m
    BY <1>10
  <2>2. i \in 1..n /\ i # n + 1 /\ i \in 1..n + 1
    BY <1>12, <2>1
  <2>3. rep.levels[i] = old.levels[i]
    BY <1>5, <2>2
  <2> QED BY <1>2, <1>5, <1>7, <2>2, <2>3 DEF Finished, Built
<1>13. sources \in Nat
  BY <1>1, ScriptFacts
<1>14. Built(rep, rep.levels[m], sources)
  BY <1>2, <1>3, <1>4, <1>5, <1>12, <1>13 DEF Built
<1>15. ~rep.complete /\ ~rep.error /\ rep.compiler_sha256 = binary[runner[r].build]
      /\ rep.source_sha256 <= sources /\ m > 0
  BY <1>2, <1>5, <1>12
<1> QED BY <1>1, <1>5, <1>7, <1>9, <1>10, <1>11, <1>12, <1>14, <1>15, Continues

LEMMA HangStep ==
  ASSUME Inv, NEW r \in Runners, Hang(r), UNCHANGED <<bootVars, runner, tools>>
  PROVE  Inv'
<1>1. /\ child[r].pc \in Inside /\ child[r].pc \in ScriptPhases /\ "hung" \in ScriptPhases
      /\ "hung" \in Inside /\ "hung" \notin Working
  BY DEF Hang, Inside, Working, ScriptPhases
<1>2. PICK o \in Script : o = child[r]
  BY <1>1, ScriptFacts
<1>3. PICK pc \in ScriptPhases : pc = "hung"
  BY <1>1
<1>4. PICK c \in Script :
        /\ c = [o EXCEPT !.pc = pc] /\ c.stage = o.stage /\ c.path = o.path
        /\ c.pc = pc /\ c.report = o.report
  BY TurnedPhase
<1>5. Set(r, c) /\ results' = results /\ UNCHANGED sources
  BY <1>2, <1>3, <1>4 DEF Hang
<1>6. /\ c.stage = child[r].stage /\ c.path = child[r].path /\ c.pc \in Inside
      /\ Progress(c, binary[runner[r].build], sources)
  BY <1>1, <1>2, <1>3, <1>4 DEF Progress
<1> QED BY <1>1, <1>5, <1>6, GoesOn

LEMMA OpenStep ==
  ASSUME Inv, NEW r \in Runners, Open(r) \/ OpenCli(r), UNCHANGED <<bootVars, runner, tools>>
  PROVE  Inv'
<1>1. child[r].pc = "open" /\ child[r].pc \in ScriptPhases
  BY DEF Open, OpenCli, Runs, ScriptPhases, Inside
<1>2. child[r].stage \in Reporting
  BY <1>1, ScriptFacts
<1>3. CASE Open(r)
  <2>1. PICK next \in {"reference", "build"} : next = "reference"
    OBVIOUS
  <2>2. child[r].stage # "cli-smoke" /\ Opens(r, next)
    BY <1>3, <2>1 DEF Open, Differs, Differential
  <2>3. child[r].stage = "cli-smoke" <=> next = "build"
    BY <2>1, <2>2
  <2> QED BY <1>1, <2>2, <2>3, OpensStep
<1>4. CASE OpenCli(r)
  <2>1. PICK next \in {"reference", "build"} : next = "build"
    OBVIOUS
  <2>2. child[r].stage = "cli-smoke" /\ Opens(r, next)
    BY <1>2, <1>4, <2>1 DEF OpenCli, Differs, Reporting
  <2>3. child[r].stage = "cli-smoke" <=> next = "build"
    BY <2>1, <2>2
  <2> QED BY <1>1, <2>2, <2>3, OpensStep
<1> QED BY <1>3, <1>4

\* A script that fails, and may save why.
LEMMA FailedStep ==
  ASSUME Inv, NEW r \in Runners, Mismatch(r) \/ FailedCheck(r) \/ Break(r) \/ BreakCli(r),
         UNCHANGED <<bootVars, runner, tools>>
  PROVE  Inv'
<1>1. /\ child[r].pc \in Inside /\ child[r].pc \in ScriptPhases /\ 1 \in Nat \ {0}
      /\ UNCHANGED sources /\ Set(r, Exited(1))
  BY DEF Mismatch, FailedCheck, Break, BreakCli, Runs, Inside, Working, ScriptPhases
<1>2. ASSUME child[r].pc \in {"cases", "checks"}
      PROVE  \E rep \in OpenReports : rep = WithRow(r, [row(r) EXCEPT !.failed = TRUE])
                                      /\ ~rep.complete
  <2>1. PICK new \in RowType : new = [row(r) EXCEPT !.failed = TRUE]
    BY <1>2, RunningRow, RowFailed
  <2>2. PICK old \in OpenReports, n \in Nat : old = report(r) /\ n = Len(old.levels) /\ n > 0
                                              /\ ~old.complete
    <3>1. child[r].pc \in Working
      BY <1>2 DEF Working
    <3> QED BY <1>2, <3>1, AtWork
  <2>3. PICK rep \in OpenReports : rep = Replaced(old, new) /\ rep.complete = old.complete
    BY <2>2, RowReplaced
  <2>4. rep = WithRow(r, [row(r) EXCEPT !.failed = TRUE])
    BY <2>1, <2>2, <2>3 DEF Replaced, WithRow
  <2> QED BY <2>2, <2>3, <2>4
<1>3. ASSUME NEW old \in OpenReports, ~old.complete
      PROVE  \E rep \in OpenReports : rep = [old EXCEPT !.error = TRUE] /\ ~rep.complete
  <2>1. [old EXCEPT !.error = TRUE] \in OpenReports
    BY DEF OpenReports
  <2>2. PICK rep \in OpenReports : rep = [old EXCEPT !.error = TRUE]
    BY <2>1
  <2>3. rep.complete = old.complete
    BY <2>2 DEF OpenReports
  <2> QED BY <1>3, <2>2, <2>3
<1>4. CASE BreakCli(r)
  BY <1>1, <1>4, Fails DEF BreakCli
<1>5. \/ BreakCli(r)
      \/ \E rep \in OpenReports : ~rep.complete /\ Saves(r, rep)
  <2>1. CASE Mismatch(r)
    <3>1. child[r].pc \in {"cases", "checks"}
      BY <2>1 DEF Mismatch, Runs
    <3>2. PICK old \in OpenReports : old = WithRow(r, [row(r) EXCEPT !.failed = TRUE])
                                     /\ ~old.complete
      BY <1>2, <3>1
    <3>3. PICK rep \in OpenReports : rep = [old EXCEPT !.error = TRUE] /\ ~rep.complete
      BY <1>3, <3>2
    <3>4. Saves(r, rep)
      BY <2>1, <3>2, <3>3 DEF Mismatch
    <3> QED BY <3>3, <3>4
  <2>2. CASE FailedCheck(r)
    <3>1. child[r].pc \in {"cases", "checks"}
      BY <2>2 DEF FailedCheck, Runs
    <3>2. PICK rep \in OpenReports : rep = WithRow(r, [row(r) EXCEPT !.failed = TRUE])
                                     /\ ~rep.complete
      BY <1>2, <3>1
    <3>3. Saves(r, rep)
      BY <2>2, <3>2 DEF FailedCheck
    <3> QED BY <3>2, <3>3
  <2>3. CASE Break(r)
    <3>1. child[r].pc \in Working
      BY <2>3 DEF Break, Working
    <3>2. PICK old \in OpenReports : old = report(r) /\ ~old.complete
      BY <3>1, AtWork
    <3>3. PICK rep \in OpenReports : rep = [old EXCEPT !.error = TRUE] /\ ~rep.complete
      BY <1>3, <3>2
    <3>4. Saves(r, rep)
      BY <2>3, <3>2, <3>3 DEF Break
    <3> QED BY <3>3, <3>4
  <2> QED BY <2>1, <2>2, <2>3
<1>6. ASSUME NEW rep \in OpenReports, ~rep.complete, Saves(r, rep)
      PROVE  Inv'
  <2>1. /\ rep \in OpenReports \cup {Torn} /\ ~(rep.readable /\ rep.complete)
    BY <1>6
  <2>2. child[r].pc \in Inside /\ \E x \in OpenReports \cup {Torn} :
              ~(x.readable /\ x.complete) /\ Saves(r, x)
    BY <1>1, <1>6, <2>1
  <2> QED BY <1>1, <2>2, Fails
<1> QED BY <1>4, <1>5, <1>6

\* A script ends with success: its whole report says so.
LEMMA Succeeds ==
  ASSUME Inv, NEW r \in Runners, child[r].pc \in {"level", "build"},
         NEW old \in OpenReports, old = report(r), Len(old.levels) = Len(Levels),
         NEW rep \in OpenReports, rep.levels = old.levels, rep.complete, ~rep.error,
         rep.compiler_sha256 = old.compiler_sha256, rep.source_sha256 = old.source_sha256,
         old.source_sha256 = sources \/ child[r].pc = "build",
         Saves(r, rep), Set(r, Exited(0)), UNCHANGED <<bootVars, sources, runner, tools>>
  PROVE  Inv'
<1>1. child[r].pc \in Working /\ child[r].pc \in ScriptPhases /\ child[r].pc \in Inside
  BY DEF Working, ScriptPhases, Inside
<1>2. PICK o \in Script, n \in Nat :
           /\ o = child[r] /\ n = Len(old.levels)
           /\ old.compiler_sha256 = binary[runner[r].build] /\ old.source_sha256 <= sources
           /\ \A i \in 1..n : Finished(o.stage, old, old.levels[i], sources)
           /\ old.levels \in Seq(RowType)
           /\ o.stage = "cli-smoke" <=> o.pc \in {"build", "checks"}
  BY <1>1, AtWork
<1>3. PICK s \in Reporting : s = child[r].stage
  BY <1>1, ScriptFacts
<1>4. s \in Differential => old.source_sha256 = sources
  BY <1>2, <1>3 DEF Differential
<1>5. sources \in Nat /\ old.source_sha256 \in Nat /\ runner[r].compiler = rep.compiler_sha256
  BY <1>1, <1>2, ScriptFacts DEF OpenReports
<1>6. checked(s, rep)
  <2>1. Len(rep.levels) = Len(Levels) /\ ~rep.error /\ DOMAIN rep.levels = 1..n
    BY <1>2
  <2>2. ASSUME NEW i \in 1..n
        PROVE  /\ rep.levels[i].passed = Cases /\ ~rep.levels[i].failed
               /\ rep.levels[i].executable_sha256[1] = rep.compiler_sha256
               /\ s \in Differential =>
                    rep.levels[i].complete
                    /\ rep.levels[i].executable_sha256[2] = rep.source_sha256
    <3>1. PICK at : at = rep.levels[i]
      OBVIOUS
    <3>2. Finished(s, old, at, sources)
      BY <1>2, <1>3, <3>1
    <3>3. at.executable_sha256[2] \in Nat
      BY <3>2 DEF Finished, Built
    <3>4. s \in Differential => at.executable_sha256[2] = old.source_sha256
      BY <1>4, <1>5, <3>2, <3>3 DEF Finished, Built
    <3> QED BY <3>1, <3>2, <3>4 DEF Finished, Built
  <2> QED BY <2>1, <2>2 DEF checked
<1>7. rep.exists /\ rep.readable
  BY ReportsExist
<1>8. Whole(rep, s, runner[r].compiler)
  BY <1>5, <1>6, <1>7 DEF Whole
<1>9. PICK c \in Others : c = Exited(0) /\ c.pc = "exited"
  BY DEF Exited, Others
<1>10. child' = [child EXCEPT ![r] = c] /\ results' = [results EXCEPT ![s] = rep]
  BY <1>3, <1>9 DEF Set, Saves
<1>11. c.pc \notin ScriptPhases /\ c.pc \notin Inside /\ c.pc # "program"
       /\ rep \in OpenReports \cup {NoDirectory, Torn} /\ c \in Others \cup Script
  BY <1>9 DEF ScriptPhases, Inside, Working
<1> QED BY <1>1, <1>3, <1>6, <1>7, <1>8, <1>10, <1>11, ChildMoves

LEMMA ConcludeStep ==
  ASSUME Inv, NEW r \in Runners, Conclude(r), UNCHANGED <<bootVars, runner, tools>>
  PROVE  Inv'
<1>1. /\ child[r].pc = "level" /\ child[r].pc \in Working /\ child[r].pc \in Inside
      /\ child[r].pc \in ScriptPhases /\ UNCHANGED sources
  BY DEF Conclude, Runs, Working, Inside, ScriptPhases
<1>2. PICK old \in OpenReports : old = report(r)
  BY <1>1, AtWork
<1>3. PICK b \in BOOLEAN, e \in BOOLEAN : b = same_sources(r) /\ e = ~same_sources(r)
  BY DEF same_sources
<1>4. PICK rep \in OpenReports :
           /\ rep = Verdict(old, b, e)
           /\ rep.levels = old.levels /\ rep.complete = b /\ rep.error = e
           /\ rep.compiler_sha256 = old.compiler_sha256 /\ rep.source_sha256 = old.source_sha256
  BY Concluded
<1>5. Saves(r, rep) /\ Set(r, Exited(IF b THEN 0 ELSE 1)) /\ Len(old.levels) = Len(Levels)
  BY <1>2, <1>3, <1>4 DEF Conclude, Verdict
<1>6. CASE b
  <2>1. /\ Set(r, Exited(0)) /\ rep.complete /\ ~rep.error /\ old.source_sha256 = sources
    BY <1>2, <1>3, <1>4, <1>5, <1>6 DEF same_sources
  <2> QED BY <1>1, <1>2, <1>4, <1>5, <2>1, Succeeds
<1>7. CASE ~b
  <2>1. /\ Set(r, Exited(1)) /\ ~rep.complete /\ rep \in OpenReports \cup {Torn}
        /\ 1 \in Nat \ {0}
    BY <1>4, <1>5, <1>7
  <2>2. child[r].pc \in Inside /\ \E x \in OpenReports \cup {Torn} :
              ~(x.readable /\ x.complete) /\ Saves(r, x)
    BY <1>1, <1>5, <2>1
  <2> QED BY <1>1, <2>1, <2>2, Fails
<1> QED BY <1>6, <1>7

LEMMA ConcludeCliStep ==
  ASSUME Inv, NEW r \in Runners, ConcludeCli(r), UNCHANGED <<bootVars, runner, tools>>
  PROVE  Inv'
<1>1. child[r].pc = "build" /\ child[r].pc \in Working /\ UNCHANGED sources
  BY DEF ConcludeCli, Runs, Working
<1>2. PICK old \in OpenReports : old = report(r) /\ ~old.error
  BY <1>1, AtWork
<1>3. PICK rep \in OpenReports : rep = [old EXCEPT !.complete = TRUE]
  <2>1. [old EXCEPT !.complete = TRUE] \in OpenReports
    BY DEF OpenReports
  <2> QED BY <2>1
<1>4. /\ rep.levels = old.levels /\ rep.complete = TRUE /\ rep.error = old.error
      /\ rep.compiler_sha256 = old.compiler_sha256 /\ rep.source_sha256 = old.source_sha256
  BY <1>3 DEF OpenReports
<1>5. Saves(r, rep) /\ Set(r, Exited(0)) /\ Len(old.levels) = Len(Levels)
  BY <1>2, <1>3 DEF ConcludeCli
<1> QED BY <1>1, <1>2, <1>4, <1>5, Succeeds

LEMMA ScriptStepInv ==
  ASSUME Inv, NEW r \in Runners, ScriptStep(r), UNCHANGED <<bootVars, runner, tools>>
  PROVE  Inv'
BY MkdirStep, OpenStep, ReferenceStep, BeginLevelStep, BuildLevelStep, CaseStep, EndLevelStep,
   ConcludeStep, FailedStep, BuildCliStep, EndChecksStep, ConcludeCliStep
   DEF ScriptStep

-----------------------------------------------------------------------------
(* Processes that end, edits, and further builds *)

LEMMA ProgramStep ==
  ASSUME Inv, NEW r \in Runners, Program(r)
  PROVE  Inv'
<1>1. /\ child[r].pc = "program" /\ UNCHANGED <<bootVars, sources, results, runner>>
      /\ tools' \in BOOLEAN
  BY DEF Program, Runs
<1>2. PICK c \in Others : child' = [child EXCEPT ![r] = c] /\ c.pc = "exited"
  <2>1. PICK status \in {0, 1} : Set(r, Exited(status))
    BY DEF Program
  <2>2. Exited(status) \in Others /\ Exited(status).pc = "exited"
    BY DEF Exited, Others
  <2> QED BY <2>1, <2>2 DEF Set
<1>3. /\ BootInv /\ Types /\ ChildrenInv /\ RunnersInv /\ OwnersInv /\ ReportsHold
  BY DEF Inv
<1>4. BootInv' /\ record' = record /\ binary' = binary
  BY <1>1, <1>3, BootUnchanged DEF bootVars
<1>5. Types'
  BY <1>1, <1>2, <1>3 DEF Types
<1>6. \A q \in Runners : child'[q] = IF q = r THEN c ELSE child[q]
  BY <1>2, <1>3 DEF Types
<1>7. "exited" \notin ScriptPhases /\ "exited" \notin Inside
  BY DEF ScriptPhases, Inside, Working
<1>8. ChildrenInv'
  BY <1>1, <1>2, <1>3, <1>4, <1>6, <1>7 DEF ChildrenInv, ScriptInv, Stage
<1>9. RunnersInv' /\ ReportsHold'
  BY <1>1, <1>3, <1>4 DEF RunnersInv, ReportsHold
<1>10. \A q \in Runners, s \in Reporting : /\ WorksOn(q, s)' => WorksOn(q, s)
                                           /\ Leaves(q, s)' => Leaves(q, s)
                                           /\ Passed(q, s)' = Passed(q, s)
  <2> SUFFICES ASSUME NEW q \in Runners, NEW s \in Reporting
               PROVE  /\ WorksOn(q, s)' => WorksOn(q, s)
                      /\ Leaves(q, s)' => Leaves(q, s)
                      /\ Passed(q, s)' = Passed(q, s)
    OBVIOUS
  <2>1. CASE q # r
    BY <1>1, <1>6, <2>1 DEF WorksOn, Leaves, Passed, Stage
  <2>2. CASE q = r
    <3>1. ~WorksOn(r, s)'
      BY <1>2, <1>6, <1>7 DEF WorksOn
    <3>2. ~Leaves(r, s)'
      BY <1>1, <1>3 DEF Leaves, ChildrenInv, Stage
    <3> QED BY <1>1, <2>2, <3>1, <3>2 DEF Passed
  <2> QED BY <2>1, <2>2
<1>11. OwnersInv'
  BY <1>1, <1>3, <1>10 DEF OwnersInv, Owns
<1> QED BY <1>4, <1>5, <1>8, <1>9, <1>11 DEF Inv

LEMMA TimesOutStep ==
  ASSUME Inv, NEW r \in Runners, TimesOut(r)
  PROVE  Inv'
<1>1. /\ child[r].pc \notin {"none", "exited"} /\ runner[r].pc = "running"
      /\ Set(r, Exited(124)) /\ Kills(r) /\ UNCHANGED <<bootVars, sources, runner, tools>>
  BY DEF TimesOut, Running, In
<1>2. child[r].pc \in ScriptPhases \cup {"program"}
  BY <1>1 DEF Inv, Types, Others, Script
<1>3. CASE child[r].pc \in ScriptPhases
  <2>1. 124 \in Nat \ {0}
    OBVIOUS
  <2>2. \/ results' = results
        \/ child[r].pc \in Inside /\ \E rep \in OpenReports \cup {Torn} :
             ~(rep.readable /\ rep.complete) /\ Saves(r, rep)
    <3>1. CASE results' = results
      BY <3>1
    <3>2. CASE results' # results
      <4>1. child[r].pc # "mkdir" /\ results' = [results EXCEPT ![child[r].stage] = Torn]
        BY <1>1, <3>2 DEF Kills
      <4>2. PICK rep \in OpenReports \cup {Torn} : rep = Torn /\ ~rep.readable
        BY ReportsExist
      <4>3. Saves(r, rep)
        BY <4>1, <4>2 DEF Saves
      <4>4. child[r].pc \in Inside
        BY <1>3, <4>1 DEF ScriptPhases
      <4> QED BY <4>2, <4>3, <4>4
    <3> QED BY <3>1, <3>2
  <2> QED BY <1>1, <1>3, <2>1, <2>2, Fails
<1>4. CASE child[r].pc = "program"
  <2>1. results' = results
    BY <1>1, <1>4 DEF Kills
  <2>0. PICK status \in Nat : status = 124
    OBVIOUS
  <2>2. PICK c \in Others : c = Exited(124) /\ c.pc = "exited" /\ c.status = 124
    <3>1. Exited(status) \in Others
      BY DEF Exited, Others
    <3>2. Exited(status).pc = "exited" /\ Exited(status).status = status
      BY DEF Exited
    <3> QED BY <2>0, <3>1, <3>2
  <2>3. child' = [child EXCEPT ![r] = c]
    BY <1>1, <2>2 DEF Set
  <2>4. /\ BootInv /\ Types /\ ChildrenInv /\ RunnersInv /\ OwnersInv /\ ReportsHold
    BY DEF Inv
  <2>5. BootInv' /\ record' = record /\ binary' = binary
    BY <1>1, <2>4, BootUnchanged DEF bootVars
  <2>6. Types'
    BY <1>1, <2>1, <2>3, <2>4 DEF Types
  <2>7. \A q \in Runners : child'[q] = IF q = r THEN c ELSE child[q]
    BY <2>3, <2>4 DEF Types
  <2>8. c.pc \notin ScriptPhases /\ c.pc \notin Inside /\ c.pc # "program" /\ c.status # 0
    BY <2>2 DEF ScriptPhases, Inside, Working
  <2>9. ChildrenInv'
    BY <1>1, <2>4, <2>5, <2>7, <2>8 DEF ChildrenInv, ScriptInv, Stage
  <2>10. RunnersInv' /\ ReportsHold'
    BY <1>1, <2>1, <2>4, <2>5 DEF RunnersInv, ReportsHold
  <2>11. \A q \in Runners, s \in Reporting : /\ WorksOn(q, s)' => WorksOn(q, s)
                                             /\ Leaves(q, s)' => Leaves(q, s)
                                             /\ Passed(q, s)' = Passed(q, s)
    BY <1>1, <2>7, <2>8 DEF WorksOn, Leaves, Passed, Stage
  <2>12. OwnersInv'
    BY <1>1, <2>1, <2>4, <2>11 DEF OwnersInv, Owns
  <2> QED BY <2>5, <2>6, <2>9, <2>10, <2>12 DEF Inv
<1> QED BY <1>2, <1>3, <1>4

LEMMA EditStep ==
  ASSUME Inv, Edit, UNCHANGED <<bootVars, runner, tools>>
  PROVE  Inv'
<1>1. sources' = sources + 1 /\ UNCHANGED <<child, results>> /\ sources \in Nat
  BY DEF Edit, Inv, Types
<1>2. BootInv' /\ record' = record /\ binary' = binary
  BY BootUnchanged DEF bootVars, Inv
<1>3. Types'
  BY <1>1 DEF Inv, Types
<1>4. ASSUME NEW rep \in OpenReports, NEW at, Built(rep, at, sources)
      PROVE  Built(rep, at, sources')
  <2>1. at.executable_sha256[2] \in Nat
    BY <1>4 DEF Built
  <2> QED BY <1>1, <1>4, <2>1 DEF Built
<1>5. ASSUME NEW c, NEW compiled, Progress(c, compiled, sources)
      PROVE  Progress(c, compiled, sources')
  <2>1. c.pc \in {"cases", "checks"} => c.pc \in Working
    BY DEF Working
  <2>2. c.pc \in Working => c.report \in OpenReports /\ c.report.source_sha256 \in Nat
    BY <1>5 DEF Progress, OpenReports
  <2> QED BY <1>1, <1>4, <1>5, <2>1, <2>2 DEF Progress, Finished
<1>6. ChildrenInv'
  BY <1>1, <1>2, <1>5 DEF Inv, ChildrenInv, ScriptInv, Stage
<1>7. RunnersInv' /\ ReportsHold'
  BY <1>1, <1>2 DEF Inv, RunnersInv, ReportsHold
<1>8. OwnersInv'
  BY <1>1 DEF Inv, OwnersInv, Owns, WorksOn, Leaves, Passed, Stage
<1> QED BY <1>2, <1>3, <1>6, <1>7, <1>8 DEF Inv

LEMMA BootNextStep ==
  ASSUME Inv, BootNext, UNCHANGED <<scriptVars, runner, tools>>
  PROVE  Inv'
<1>1. BootInv' /\ CompleteStays /\ UNCHANGED <<sources, child, results, runner, tools>>
  BY BootNextInv DEF Inv, scriptVars
<1>2. Types'
  BY <1>1 DEF Inv, Types
<1>3. \A r \in Runners : runner[r].build \in Outs /\ record[runner[r].build].complete =>
        /\ record'[runner[r].build] = record[runner[r].build]
        /\ binary'[runner[r].build] = binary[runner[r].build]
  BY <1>1 DEF CompleteStays
<1>4. ASSUME NEW r \in Runners, child[r].pc \in ScriptPhases
      PROVE  runner[r].build \in Outs /\ record[runner[r].build].complete
  BY <1>4, ScriptFacts DEF Inv, ChildrenInv, ScriptInv
<1>5. ChildrenInv'
  <2> SUFFICES ASSUME NEW r \in Runners
               PROVE  /\ ScriptInv(r)'
                      /\ child'[r].pc = "program" /\ runner'[r].pc = "running" =>
                           stages[runner'[r].checks + 1] \notin Reporting
    BY DEF ChildrenInv, Stage
  <2>1. CASE child[r].pc \in ScriptPhases
    BY <1>1, <1>3, <1>4, <2>1 DEF Inv, ChildrenInv, ScriptInv, Stage
  <2>2. CASE child[r].pc \notin ScriptPhases
    BY <1>1, <2>2 DEF Inv, ChildrenInv, ScriptInv, Stage
  <2> QED BY <2>1, <2>2
<1>6. RunnersInv'
  BY <1>1, <1>3 DEF Inv, RunnersInv
<1>7. ReportsHold' /\ OwnersInv'
  BY <1>1 DEF Inv, ReportsHold, OwnersInv, Owns, WorksOn, Leaves, Passed, Stage
<1> QED BY <1>1, <1>2, <1>5, <1>6, <1>7 DEF Inv

-----------------------------------------------------------------------------
(* The runs of acceptance *)

\* A run moves on without a stage, or is killed: what was reported and who owns it stays.
LEMMA RunnerMoves ==
  ASSUME Inv, NEW r \in Runners, NEW n \in RunnerType, runner' = [runner EXCEPT ![r] = n],
         UNCHANGED <<bootVars, scriptVars, tools>>,
         n.checks = runner[r].checks, n.complete = runner[r].complete, n.pc # "running",
         child[r].pc \in ScriptPhases =>
           n.pc = "dead" /\ n.build = runner[r].build /\ n.compiler = runner[r].compiler,
         n.compiler = runner[r].compiler \/ n.checks = 0,
         n.pc = "build" => n.build \in Outs,
         n.pc \in {"absent", "idle", "build", "fresh", "report"} => n.checks = 0,
         n.pc \in {"fresh", "report", "stage", "accepted"} =>
           /\ n.build \in Outs /\ record[n.build].complete
           /\ n.compiler = record[n.build].compiler,
         n.pc = "accepted" => n.complete /\ n.checks = Len(stages)
  PROVE  Inv'
<1>1. /\ BootInv /\ Types /\ ChildrenInv /\ RunnersInv /\ OwnersInv /\ ReportsHold
      /\ UNCHANGED <<sources, child, results>>
  BY DEF Inv, scriptVars
<1>2. BootInv' /\ record' = record /\ binary' = binary
  BY <1>1, BootUnchanged DEF bootVars
<1>3. Types'
  BY <1>1 DEF Types
<1>4. \A q \in Runners : runner'[q] = IF q = r THEN n ELSE runner[q]
  BY <1>1 DEF Types
<1>5. ChildrenInv'
  <2> SUFFICES ASSUME NEW q \in Runners
               PROVE  /\ ScriptInv(q)'
                      /\ child'[q].pc = "program" /\ runner'[q].pc = "running" =>
                           stages[runner'[q].checks + 1] \notin Reporting
    BY DEF ChildrenInv, Stage
  <2>1. CASE q = r
    BY <1>1, <1>2, <1>4, <2>1 DEF ChildrenInv, ScriptInv, Stage
  <2>2. CASE q # r
    BY <1>1, <1>2, <1>4, <2>2 DEF ChildrenInv, ScriptInv, Stage
  <2> QED BY <2>1, <2>2
<1>6. RunnersInv'
  <2> SUFFICES ASSUME NEW q \in Runners
               PROVE  /\ runner'[q].pc = "build" => runner'[q].build \in Outs
                      /\ runner'[q].pc \in {"absent", "idle", "build", "fresh", "report"} =>
                           runner'[q].checks = 0
                      /\ runner'[q].pc \in {"fresh", "report", "stage", "running", "accepted"} =>
                           /\ runner'[q].build \in Outs /\ record[runner'[q].build].complete
                           /\ runner'[q].compiler = record[runner'[q].build].compiler
                      /\ runner'[q].pc = "running" => runner'[q].checks < Len(stages)
                      /\ runner'[q].pc = "accepted" =>
                           runner'[q].complete /\ runner'[q].checks = Len(stages)
    BY <1>2 DEF RunnersInv
  <2>1. CASE q = r
    BY <1>4, <2>1
  <2>2. CASE q # r
    BY <1>1, <1>4, <2>2 DEF RunnersInv
  <2> QED BY <2>1, <2>2
<1>7. \A q \in Runners, s \in Reporting : /\ WorksOn(q, s)' = WorksOn(q, s)
                                          /\ Leaves(q, s)' => Leaves(q, s)
                                          /\ Passed(q, s)' = Passed(q, s)
  BY <1>1, <1>4 DEF WorksOn, Leaves, Passed, Stage
<1>8. \A q \in Runners, s \in Reporting : Leaves(q, s)' \/ Passed(q, s)' =>
        runner'[q].compiler = runner[q].compiler
  <2> SUFFICES ASSUME NEW q \in Runners, NEW s \in Reporting, Leaves(q, s)' \/ Passed(q, s)'
               PROVE  runner'[q].compiler = runner[q].compiler
    OBVIOUS
  <2>1. CASE q # r
    BY <1>4, <2>1
  <2>2. CASE q = r
    <3>1. ~Leaves(r, s)'
      BY <1>4 DEF Leaves
    <3>2. n.checks # 0
      BY <1>4, <2>2, <3>1 DEF Passed
    <3> QED BY <1>4, <2>2, <3>2
  <2> QED BY <2>1, <2>2
<1>9. OwnersInv'
  BY <1>1, <1>7, <1>8 DEF OwnersInv, Owns
<1>10. ReportsHold'
  BY <1>1 DEF ReportsHold
<1> QED BY <1>2, <1>3, <1>5, <1>6, <1>9, <1>10 DEF Inv

\* What a run that has not been killed knows while it waits for no stage.
LEMMA RunnerFacts ==
  ASSUME Inv, NEW r \in Runners
  PROVE  /\ runner[r] \in RunnerType /\ runner[r].checks \in 0..Len(stages)
         /\ runner[r].complete \in BOOLEAN
         /\ runner[r].pc \notin {"running", "dead"} => child[r].pc \notin ScriptPhases
         /\ runner[r].pc = "build" => runner[r].build \in Outs
         /\ runner[r].pc \in {"absent", "idle", "build", "fresh", "report"} => runner[r].checks = 0
         /\ runner[r].pc \in {"fresh", "report", "stage", "running", "accepted"} =>
              /\ runner[r].build \in Outs /\ record[runner[r].build].complete
              /\ runner[r].compiler = record[runner[r].build].compiler
         /\ runner[r].pc = "running" => runner[r].checks < Len(stages)
<1>1. runner[r] \in RunnerType
  BY DEF Inv, Types
<1>2. runner[r].checks \in 0..Len(stages) /\ runner[r].complete \in BOOLEAN
  BY <1>1 DEF RunnerType
<1> QED BY <1>1, <1>2 DEF Inv, ChildrenInv, ScriptInv, RunnersInv

\* The record of a run after a step.
TurnRun(old, pc) == [old EXCEPT !.pc = pc]

LEMMA TurnedRun ==
  ASSUME NEW old \in RunnerType, NEW pc \in RunnerPhases
  PROVE  \E n \in RunnerType :
           /\ n = TurnRun(old, pc) /\ n.pc = pc
           /\ n.build = old.build /\ n.compiler = old.compiler
           /\ n.checks = old.checks /\ n.complete = old.complete
<1>1. TurnRun(old, pc) \in RunnerType
  BY DEF RunnerType, TurnRun
<1>2. PICK n \in RunnerType : n = TurnRun(old, pc)
  BY <1>1
<1> QED BY <1>2 DEF RunnerType, TurnRun

LEMMA PlainRunnerSteps ==
  ASSUME Inv, NEW r \in Runners, CheckFresh(r) \/ FirstReport(r) \/ Finish(r) \/ Die(r)
  PROVE  Inv'
<1>1. PICK pc \in RunnerPhases :
        /\ Becomes(r, [runner[r] EXCEPT !.pc = pc])
        /\ UNCHANGED <<bootVars, scriptVars, tools>>
        /\ \/ pc = "dead"
           \/ pc \in {"failed", "report"} /\ runner[r].pc = "fresh"
           \/ pc = "stage" /\ runner[r].pc = "report"
           \/ pc = "failed" /\ runner[r].pc = "stage"
           \/ pc = "accepted" /\ runner[r].pc = "stage" /\ runner[r].complete
              /\ runner[r].checks = Len(stages)
  <2> DEFINE Good(pc) ==
        /\ Becomes(r, [runner[r] EXCEPT !.pc = pc])
        /\ UNCHANGED <<bootVars, scriptVars, tools>>
        /\ \/ pc = "dead"
           \/ pc \in {"failed", "report"} /\ runner[r].pc = "fresh"
           \/ pc = "stage" /\ runner[r].pc = "report"
           \/ pc = "failed" /\ runner[r].pc = "stage"
           \/ pc = "accepted" /\ runner[r].pc = "stage" /\ runner[r].complete
              /\ runner[r].checks = Len(stages)
  <2>1. CASE CheckFresh(r)
    <3>1. PICK pc \in RunnerPhases : pc = IF acceptance.exists THEN "failed" ELSE "report"
      BY DEF RunnerPhases
    <3>2. Good(pc)
      BY <2>1, <3>1 DEF CheckFresh, In
    <3> QED BY <3>2
  <2>2. CASE FirstReport(r)
    <3>1. PICK pc \in RunnerPhases : pc = "stage"
      BY DEF RunnerPhases
    <3>2. Good(pc)
      BY <2>2, <3>1 DEF FirstReport, In
    <3> QED BY <3>2
  <2>3. CASE Finish(r)
    <3>1. PICK pc \in RunnerPhases : pc = IF runner[r].complete THEN "accepted" ELSE "failed"
      BY DEF RunnerPhases
    <3>2. Good(pc)
      BY <2>3, <3>1 DEF Finish, In
    <3> QED BY <3>2
  <2>4. CASE Die(r)
    <3>1. PICK pc \in RunnerPhases : pc = "dead"
      BY DEF RunnerPhases
    <3>2. Good(pc)
      BY <2>4, <3>1 DEF Die
    <3> QED BY <3>2
  <2> QED BY <2>1, <2>2, <2>3, <2>4
<1>2. PICK old \in RunnerType : old = runner[r]
  BY RunnerFacts
<1>3. PICK n \in RunnerType :
           /\ n = TurnRun(old, pc) /\ n.pc = pc
           /\ n.build = old.build /\ n.compiler = old.compiler
           /\ n.checks = old.checks /\ n.complete = old.complete
  BY TurnedRun
<1>4. runner' = [runner EXCEPT ![r] = n]
  BY <1>1, <1>2, <1>3 DEF Becomes, TurnRun
<1>5. n.checks = runner[r].checks /\ n.complete = runner[r].complete /\ n.pc # "running"
      /\ n.compiler = runner[r].compiler /\ n.build = runner[r].build /\ n.pc # "build"
  BY <1>1, <1>2, <1>3
<1>6. child[r].pc \in ScriptPhases => n.pc = "dead"
  BY <1>1, <1>3, RunnerFacts
<1>7. /\ n.pc \in {"absent", "idle", "build", "fresh", "report"} => n.checks = 0
      /\ n.pc \in {"fresh", "report", "stage", "accepted"} =>
           /\ n.build \in Outs /\ record[n.build].complete
           /\ n.compiler = record[n.build].compiler
      /\ n.pc = "accepted" => n.complete /\ n.checks = Len(stages)
  BY <1>1, <1>3, <1>5, RunnerFacts
<1> QED BY <1>1, <1>4, <1>5, <1>6, <1>7, RunnerMoves

LEMMA ReadBuildStep ==
  ASSUME Inv, NEW r \in Runners, ReadBuild(r)
  PROVE  Inv'
<1>1. /\ runner[r].pc = "build" /\ UNCHANGED <<bootVars, scriptVars, tools>>
      /\ runner[r].build \in Outs /\ runner[r].checks = 0 /\ child[r].pc \notin ScriptPhases
  BY RunnerFacts DEF ReadBuild, In
<1>2. PICK old \in RunnerType : old = runner[r]
  BY RunnerFacts
<1>3. PICK pc \in {"fresh", "failed"} : pc = IF usable(runner[r].build) THEN "fresh" ELSE "failed"
  OBVIOUS
<1>4. PICK compiled \in Contents : compiled = record[runner[r].build].compiler
  BY <1>1 DEF Inv, BootInv, BootTypes, RecordType
<1>5. [old EXCEPT !.pc = pc, !.compiler = compiled] \in RunnerType
  BY DEF RunnerType, RunnerPhases
<1>6. PICK n \in RunnerType : n = [old EXCEPT !.pc = pc, !.compiler = compiled]
  BY <1>5
<1>7. /\ n.pc = pc /\ n.compiler = compiled /\ n.build = old.build /\ n.checks = old.checks
      /\ n.complete = old.complete
  BY <1>6 DEF RunnerType
<1>8. runner' = [runner EXCEPT ![r] = n]
  BY <1>2, <1>3, <1>4, <1>6 DEF ReadBuild, Becomes
<1>9. n.pc = "fresh" => record[n.build].complete
  BY <1>2, <1>3, <1>7 DEF usable
<1>10. /\ n.checks = runner[r].checks /\ n.complete = runner[r].complete /\ n.checks = 0
       /\ n.build \in Outs /\ n.compiler = record[n.build].compiler /\ n.pc # "running"
       /\ n.pc \notin {"report", "stage", "accepted"}
  BY <1>1, <1>2, <1>4, <1>7
<1> QED BY <1>1, <1>8, <1>9, <1>10, RunnerMoves

LEMMA AcceptStep ==
  ASSUME Inv, NEW r \in Runners, NEW o \in Outs, Accept(r, o)
  PROVE  Inv'
<1>1. /\ runner[r].pc = "idle" /\ UNCHANGED <<bootVars, scriptVars, tools>>
      /\ runner[r].checks = 0 /\ child[r].pc \notin ScriptPhases
  BY RunnerFacts DEF Accept, In
<1>2. PICK old \in RunnerType : old = runner[r]
  BY RunnerFacts
<1>3. [old EXCEPT !.pc = "build", !.build = o] \in RunnerType
  BY DEF RunnerType, RunnerPhases
<1>4. PICK n \in RunnerType : n = [old EXCEPT !.pc = "build", !.build = o]
  BY <1>3
<1>5. /\ n.pc = "build" /\ n.compiler = old.compiler /\ n.build = o /\ n.checks = old.checks
      /\ n.complete = old.complete
  BY <1>4 DEF RunnerType
<1>6. runner' = [runner EXCEPT ![r] = n]
  BY <1>2, <1>4 DEF Accept, Becomes
<1> QED BY <1>1, <1>2, <1>5, <1>6, RunnerMoves

LEMMA StartStageStep ==
  ASSUME Inv, NEW r \in Runners, StartStage(r)
  PROVE  Inv'
<1>1. /\ runner[r].pc = "stage" /\ runner[r].checks < Len(stages)
      /\ UNCHANGED <<bootVars, sources, results, tools>>
  BY DEF StartStage, In
<1>2. /\ BootInv /\ Types /\ ChildrenInv /\ RunnersInv /\ OwnersInv /\ ReportsHold
  BY DEF Inv
<1>3. BootInv' /\ record' = record /\ binary' = binary
  BY <1>1, <1>2, BootUnchanged DEF bootVars
<1>4. /\ child[r].pc \notin ScriptPhases /\ runner[r].build \in Outs
      /\ record[runner[r].build].complete
      /\ runner[r].compiler = record[runner[r].build].compiler
  BY <1>1, RunnerFacts
<1>5. PICK old \in RunnerType : old = runner[r]
  BY RunnerFacts
<1>6. PICK pc \in RunnerPhases : pc = "running"
  BY DEF RunnerPhases
<1>7. PICK n \in RunnerType :
           /\ n = TurnRun(old, pc) /\ n.pc = pc
           /\ n.build = old.build /\ n.compiler = old.compiler
           /\ n.checks = old.checks /\ n.complete = old.complete
  BY TurnedRun
<1>8. runner' = [runner EXCEPT ![r] = n]
  BY <1>5, <1>6, <1>7 DEF StartStage, Becomes, TurnRun
<1>9. PICK c \in Others \cup Script :
        /\ child' = [child EXCEPT ![r] = c]
        /\ c.pc \notin Inside /\ ~(c.pc = "exited" /\ c.status = 0)
        /\ c.pc = "program" => Stage(r) \notin Reporting
        /\ c.pc \in ScriptPhases =>
             /\ Stage(r) = c.stage /\ c.path = runner[r].build
             /\ Progress(c, binary[runner[r].build], sources)
  <2>1. CASE Stage(r) = "session" /\ ~tools
    <3>1. Set(r, Exited(127))
      BY <2>1 DEF StartStage
    <3>2. PICK status \in Nat : status = 127
      OBVIOUS
    <3>3. Exited(status) \in Others
      BY DEF Exited, Others
    <3>4. Exited(status).pc = "exited" /\ Exited(status).status = status
      BY DEF Exited
    <3>5. PICK c \in Others : c = Exited(status)
      BY <3>3
    <3>6. child' = [child EXCEPT ![r] = c] /\ c.pc = "exited" /\ c.status # 0
      BY <3>1, <3>2, <3>4, <3>5 DEF Set
    <3>7. c.pc \notin ScriptPhases /\ c.pc \notin Inside
      BY <3>6 DEF ScriptPhases, Inside, Working
    <3> QED BY <3>6, <3>7
  <2>2. CASE ~(Stage(r) = "session" /\ ~tools) /\ Stage(r) \in Reporting
    <3>1. Set(r, Process(Stage(r), runner[r].build))
      BY <2>2 DEF StartStage
    <3>2. PICK s \in Reporting, o \in Outs : s = Stage(r) /\ o = runner[r].build
      BY <1>4, <2>2
    <3>3. Process(s, o) \in Script
      BY DEF Process, Script, ScriptPhases
    <3>4. Process(s, o).pc = "mkdir" /\ Process(s, o).stage = s /\ Process(s, o).path = o
      BY DEF Process
    <3>5. PICK c \in Script : c = Process(s, o)
      BY <3>3
    <3>6. child' = [child EXCEPT ![r] = c] /\ c.pc = "mkdir" /\ c.stage = s /\ c.path = o
      BY <3>1, <3>2, <3>4, <3>5 DEF Set
    <3>7. c.pc \notin Inside /\ Progress(c, binary[runner[r].build], sources)
      BY <3>6 DEF Inside, Working, Progress
    <3> QED BY <3>2, <3>6, <3>7
  <2>3. CASE ~(Stage(r) = "session" /\ ~tools) /\ Stage(r) \notin Reporting
    <3>1. Set(r, [pc |-> "program"])
      BY <2>3 DEF StartStage
    <3>5. [pc |-> "program"] \in Others
      BY DEF Others
    <3>2. PICK c \in Others : c = [pc |-> "program"] /\ c.pc = "program"
      BY <3>5
    <3>3. child' = [child EXCEPT ![r] = c]
      BY <3>1, <3>2 DEF Set
    <3>4. c.pc \notin ScriptPhases /\ c.pc \notin Inside
      BY <3>2 DEF ScriptPhases, Inside, Working
    <3> QED BY <2>3, <3>2, <3>3, <3>4
  <2> QED BY <2>1, <2>2, <2>3
<1>10. Types'
  BY <1>1, <1>2, <1>8, <1>9 DEF Types
<1>11. /\ \A q \in Runners : runner'[q] = IF q = r THEN n ELSE runner[q]
       /\ \A q \in Runners : child'[q] = IF q = r THEN c ELSE child[q]
       /\ n.pc = "running" /\ n.checks = runner[r].checks /\ n.build = runner[r].build
       /\ n.compiler = runner[r].compiler /\ n.complete = runner[r].complete
  BY <1>2, <1>5, <1>6, <1>7, <1>8, <1>9 DEF Types
<1>12. ChildrenInv'
  <2> SUFFICES ASSUME NEW q \in Runners
               PROVE  /\ ScriptInv(q)'
                      /\ child'[q].pc = "program" /\ runner'[q].pc = "running" =>
                           stages[runner'[q].checks + 1] \notin Reporting
    BY DEF ChildrenInv, Stage
  <2>1. CASE q = r
    BY <1>1, <1>3, <1>4, <1>9, <1>11, <2>1 DEF ScriptInv, Stage
  <2>2. CASE q # r
    BY <1>1, <1>2, <1>3, <1>11, <2>2 DEF ChildrenInv, ScriptInv, Stage
  <2> QED BY <2>1, <2>2
<1>13. RunnersInv'
  BY <1>1, <1>2, <1>3, <1>4, <1>11 DEF RunnersInv
<1>14. \A q \in Runners, s \in Reporting : /\ WorksOn(q, s)' => WorksOn(q, s)
                                           /\ Leaves(q, s)' => Leaves(q, s)
                                           /\ Passed(q, s)' = Passed(q, s)
                                           /\ runner'[q].compiler = runner[q].compiler
  <2> SUFFICES ASSUME NEW q \in Runners, NEW s \in Reporting
               PROVE  /\ WorksOn(q, s)' => WorksOn(q, s)
                      /\ Leaves(q, s)' => Leaves(q, s)
                      /\ Passed(q, s)' = Passed(q, s)
                      /\ runner'[q].compiler = runner[q].compiler
    OBVIOUS
  <2>1. CASE q # r
    BY <1>11, <2>1 DEF WorksOn, Leaves, Passed, Stage
  <2>2. CASE q = r
    BY <1>9, <1>11, <2>2 DEF WorksOn, Leaves, Passed
  <2> QED BY <2>1, <2>2
<1>15. OwnersInv' /\ ReportsHold'
  BY <1>1, <1>2, <1>14 DEF OwnersInv, Owns, ReportsHold
<1> QED BY <1>3, <1>10, <1>12, <1>13, <1>15 DEF Inv

LEMMA EndStageStep ==
  ASSUME Inv, NEW r \in Runners, EndStage(r)
  PROVE  Inv'
<1>1. /\ runner[r].pc = "running" /\ child[r].pc = "exited"
      /\ UNCHANGED <<bootVars, sources, results, tools>>
  BY DEF EndStage, In, Runs
<1>2. /\ BootInv /\ Types /\ ChildrenInv /\ RunnersInv /\ OwnersInv /\ ReportsHold
  BY DEF Inv
<1>3. BootInv' /\ record' = record /\ binary' = binary
  BY <1>1, <1>2, BootUnchanged DEF bootVars
<1>4. /\ runner[r].build \in Outs /\ record[runner[r].build].complete
      /\ runner[r].compiler = record[runner[r].build].compiler
      /\ runner[r].checks < Len(stages) /\ runner[r].checks \in 0..Len(stages)
  BY <1>1, RunnerFacts
<1>5. PICK old \in RunnerType : old = runner[r]
  BY RunnerFacts
<1>6. PICK ok \in BOOLEAN : ok = passes(r, child[r].status)
                            /\ (ok => runner[r].complete /\ child[r].status = 0)
  BY RunnerFacts DEF passes
<1>7. PICK k \in 0..Len(stages) : k = runner[r].checks + 1
  BY <1>4, StagesFacts
<1>8. [old EXCEPT !.pc = "stage", !.checks = k, !.complete = ok] \in RunnerType
  BY DEF RunnerType, RunnerPhases
<1>9. PICK n \in RunnerType : n = [old EXCEPT !.pc = "stage", !.checks = k, !.complete = ok]
  BY <1>8
<1>10. /\ n.pc = "stage" /\ n.checks = k /\ n.complete = ok /\ n.build = runner[r].build
       /\ n.compiler = runner[r].compiler
  BY <1>5, <1>9 DEF RunnerType
<1>11. runner' = [runner EXCEPT ![r] = n]
  BY <1>5, <1>6, <1>7, <1>9 DEF EndStage, Becomes
<1>12. PICK c \in Others : c = NoChild /\ c.pc = "none"
  <2>1. NoChild \in Others
    BY DEF NoChild, Others
  <2>2. NoChild.pc = "none"
    BY DEF NoChild
  <2> QED BY <2>1, <2>2
<1>13. child' = [child EXCEPT ![r] = c] /\ c.pc \notin ScriptPhases /\ c.pc \notin Inside
  BY <1>12 DEF EndStage, Set, ScriptPhases, Inside, Working
<1>14. Types'
  BY <1>1, <1>2, <1>11, <1>13 DEF Types
<1>15. /\ \A q \in Runners : runner'[q] = IF q = r THEN n ELSE runner[q]
       /\ \A q \in Runners : child'[q] = IF q = r THEN c ELSE child[q]
  BY <1>2, <1>11, <1>13 DEF Types
<1>16. ChildrenInv'
  <2> SUFFICES ASSUME NEW q \in Runners
               PROVE  /\ ScriptInv(q)'
                      /\ child'[q].pc = "program" /\ runner'[q].pc = "running" =>
                           stages[runner'[q].checks + 1] \notin Reporting
    BY DEF ChildrenInv, Stage
  <2>1. CASE q = r
    BY <1>12, <1>13, <1>15, <2>1 DEF ScriptInv
  <2>2. CASE q # r
    BY <1>1, <1>2, <1>3, <1>15, <2>2 DEF ChildrenInv, ScriptInv, Stage
  <2> QED BY <2>1, <2>2
<1>17. RunnersInv'
  BY <1>2, <1>3, <1>4, <1>10, <1>15 DEF RunnersInv
<1>18. \A s \in Reporting : /\ ~WorksOn(r, s)' /\ ~Leaves(r, s)'
                            /\ Passed(r, s)' => Leaves(r, s) \/ Passed(r, s)
  <2> SUFFICES ASSUME NEW s \in Reporting
               PROVE  /\ ~WorksOn(r, s)' /\ ~Leaves(r, s)'
                      /\ Passed(r, s)' => Leaves(r, s) \/ Passed(r, s)
    OBVIOUS
  <2>1. ~WorksOn(r, s)' /\ ~Leaves(r, s)'
    BY <1>10, <1>13, <1>15 DEF WorksOn, Leaves
  <2>2. ASSUME Passed(r, s)' PROVE Leaves(r, s) \/ Passed(r, s)
    <3>1. PICK i \in 1..k : ok /\ stages[i] = s
      BY <1>10, <1>15, <2>2 DEF Passed
    <3>2. CASE i = k
      BY <1>1, <1>6, <1>7, <3>1, <3>2 DEF Leaves, Stage
    <3>3. CASE i # k
      BY <1>4, <1>6, <1>7, <3>1, <3>3 DEF Passed
    <3> QED BY <3>2, <3>3
  <2> QED BY <2>1, <2>2
<1>19. \A q \in Runners \ {r}, s \in Reporting : /\ WorksOn(q, s)' = WorksOn(q, s)
                                                 /\ Leaves(q, s)' = Leaves(q, s)
                                                 /\ Passed(q, s)' = Passed(q, s)
  BY <1>15 DEF WorksOn, Leaves, Passed, Stage
<1>20. \A q \in Runners : runner'[q].compiler = runner[q].compiler
  BY <1>10, <1>15
<1>21. OwnersInv' /\ ReportsHold'
  BY <1>1, <1>2, <1>18, <1>19, <1>20 DEF OwnersInv, Owns, ReportsHold
<1> QED BY <1>3, <1>14, <1>16, <1>17, <1>21 DEF Inv

-----------------------------------------------------------------------------
(* The invariant *)

LEMMA InitInv ==
  ASSUME Init
  PROVE  Inv
<1>1. PICK party \in Parties :
        /\ BootInit(party) /\ ScriptInit(party)
        /\ runner = [r \in Runners |-> [pc |-> IF r \in party.present THEN "idle" ELSE "absent",
                       build |-> None, compiler |-> None, checks |-> 0, complete |-> TRUE]]
  BY DEF Init
<1>2. BootInv
  BY <1>1, BootInitInv
<1>3. /\ sources = MaxEdits - party.edits /\ child = [r \in Runners |-> NoChild]
      /\ results = [s \in Reporting |-> NoDirectory]
  BY <1>1 DEF ScriptInit
<1>4. sources \in Nat
  BY <1>3, ScriptsAssumption
<1>5. NoChild \in Others
  BY DEF NoChild, Others
<1>6. \A r \in Runners : child[r].pc = "none"
  BY <1>3 DEF NoChild
<1>7. 0 \in 0..Len(stages)
  BY StagesFacts
<1>8. \A r \in Runners : /\ runner[r] \in RunnerType /\ runner[r].pc \in {"idle", "absent"}
                         /\ runner[r].checks = 0
  BY <1>1, <1>7 DEF RunnerType, RunnerPhases, Contents
<1>9. Types
  <2>1. \A r \in Runners : [pc |-> IF r \in party.present THEN "idle" ELSE "absent",
                            build |-> None, compiler |-> None, checks |-> 0, complete |-> TRUE]
                           \in RunnerType
    BY <1>7 DEF RunnerType, RunnerPhases, Contents
  <2>2. runner \in [Runners -> RunnerType]
    BY <1>1, <2>1
  <2>3. tools \in BOOLEAN
    BY DEF Init
  <2> QED BY <1>3, <1>4, <1>5, <2>2, <2>3 DEF Types
<1>10. "none" \notin ScriptPhases /\ "none" \notin Inside
  BY DEF ScriptPhases, Inside, Working
<1>11. ChildrenInv
  BY <1>6, <1>10 DEF ChildrenInv, ScriptInv
<1>12. RunnersInv
  BY <1>8 DEF RunnersInv
<1>13. \A r \in Runners, s \in Reporting : ~Owns(r, s)
  BY <1>6, <1>8, <1>10 DEF Owns, WorksOn, Leaves, Passed
<1>14. OwnersInv
  BY <1>13 DEF OwnersInv, Owns
<1>15. ReportsHold
  BY <1>3 DEF ReportsHold, NoDirectory
<1> QED BY <1>2, <1>9, <1>11, <1>12, <1>14, <1>15 DEF Inv

LEMMA NextInv ==
  ASSUME Inv, [Next]_vars
  PROVE  Inv'
<1>1. CASE UNCHANGED vars
  BY <1>1, BootUnchanged
     DEF vars, bootVars, scriptVars, Inv, Types, ChildrenInv, ScriptInv, RunnersInv, OwnersInv, Owns,
     WorksOn, Leaves, Passed, Stage, ReportsHold
<1>2. CASE BootNext /\ UNCHANGED <<scriptVars, runner, tools, acceptance>>
  BY <1>2, BootNextStep
<1>3. CASE Edit /\ UNCHANGED <<bootVars, runner, tools, acceptance>>
  BY <1>3, EditStep
<1>4. ASSUME NEW r \in Runners,
             \/ RunnerStep(r) \/ ChildStep(r) \/ TimesOut(r) \/ Die(r)
             \/ Hang(r) /\ UNCHANGED <<bootVars, runner, tools, acceptance>>
             \/ \E o \in Outs : Accept(r, o)
      PROVE  Inv'
  <2>1. CASE RunnerStep(r)
    BY <2>1, ReadBuildStep, PlainRunnerSteps, StartStageStep, EndStageStep DEF RunnerStep
  <2>2. CASE ChildStep(r)
    BY <2>2, ScriptStepInv, ProgramStep DEF ChildStep
  <2>3. CASE TimesOut(r)
    BY <2>3, TimesOutStep
  <2>4. CASE Die(r)
    BY <2>4, PlainRunnerSteps
  <2>5. CASE Hang(r) /\ UNCHANGED <<bootVars, runner, tools, acceptance>>
    BY <2>5, HangStep
  <2>6. CASE \E o \in Outs : Accept(r, o)
    BY <2>6, AcceptStep
  <2> QED BY <1>4, <2>1, <2>2, <2>3, <2>4, <2>5, <2>6
<1> QED BY <1>1, <1>2, <1>3, <1>4 DEF Next

\* The invariant: the builds and their directories, the scripts' reports and who owns them.
THEOREM Inductive == Spec => []Inv
<1>1. Init => Inv
  BY InitInv
<1>2. Inv /\ [Next]_vars => Inv'
  BY NextInv
<1> QED BY <1>1, <1>2, PTL DEF Spec

-----------------------------------------------------------------------------
(* The theorems *)

\* A complete build record names the pinned revision and the compiler that is there, built
\* from that revision's sources unless another build in the same target directory came
\* between Cargo and the copy, whoever else built before or since and whatever
\* failed (native/bootstrap.py).
THEOREM CompleteBuildsAreRecorded == Spec => []RecordedCompiler
<1>1. Inv => RecordedCompiler
  BY DEF Inv, BootInv
<1> QED BY <1>1, Inductive, PTL

\* A report that says it is complete has every level with every case passed, made by the
\* compiler and from the sources it names, wherever its script was stopped and whatever was
\* edited (native/cli.py, native/differential/run.py, state_run.py).
THEOREM ReportsSayWhatWasDone == Spec => []ReportsHold
<1>1. Inv => ReportsHold
  BY DEF Inv
<1> QED BY <1>1, Inductive, PTL

\* Every script's stage is passed by a run that accepts, and its directory is the run's own.
LEMMA AcceptedOwns ==
  ASSUME Inv, NEW r \in Runners, runner[r].pc = "accepted", NEW s \in Reporting
  PROVE  Passed(r, s)
<1>1. runner[r].complete /\ runner[r].checks = Len(stages)
  BY DEF Inv, RunnersInv
<1> QED BY <1>1, StagesFacts DEF Passed

\* A compiler is accepted by one run only, with the whole report of every script for the
\* compiler of the complete build it was asked to accept (native/tools/src/accept.fe).
THEOREM AcceptanceIsEarned == Spec => []AcceptedIsChecked
<1>1. Inv => AcceptedIsChecked
  <2> SUFFICES ASSUME Inv, NEW r \in Runners, runner[r].pc = "accepted"
               PROVE  /\ \A q \in Runners \ {r} : runner[q].pc # "accepted"
                      /\ compiler(runner[r].build) = runner[r].compiler
                      /\ ~Overtaken(runner[r].build) =>
                           runner[r].compiler = record[runner[r].build].revision
                      /\ \A s \in Reporting :
                           /\ results[s].exists /\ results[s].readable /\ results[s].complete
                           /\ checked(s, results[s])
                           /\ results[s].compiler_sha256 = runner[r].compiler
    BY DEF AcceptedIsChecked
  <2>1. /\ runner[r].build \in Outs /\ record[runner[r].build].complete
        /\ runner[r].compiler = record[runner[r].build].compiler
    BY RunnerFacts
  <2>2. /\ compiler(runner[r].build) = runner[r].compiler
        /\ ~Overtaken(runner[r].build) =>
             runner[r].compiler = record[runner[r].build].revision
    BY <2>1 DEF Inv, BootInv, RecordedCompiler, compiler
  <2>3. ASSUME NEW s \in Reporting
        PROVE  /\ results[s].exists /\ results[s].readable /\ results[s].complete
               /\ checked(s, results[s])
               /\ results[s].compiler_sha256 = runner[r].compiler
    BY AcceptedOwns DEF Inv, OwnersInv, Whole
  <2>4. ASSUME NEW q \in Runners \ {r}, runner[q].pc = "accepted"
        PROVE  FALSE
    <3>1. "cli-smoke" \in Reporting
      BY DEF Reporting
    <3>2. Passed(r, "cli-smoke") /\ Passed(q, "cli-smoke")
      BY <2>4, <3>1, AcceptedOwns
    <3>3. Owns(r, "cli-smoke") /\ Owns(q, "cli-smoke")
      BY <3>2 DEF Owns
    <3> QED BY <3>1, <3>3 DEF Inv, OwnersInv
  <2> QED BY <2>2, <2>3, <2>4
<1> QED BY <1>1, Inductive, PTL
=============================================================================

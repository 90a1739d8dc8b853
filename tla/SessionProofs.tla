----------------------------- MODULE SessionProofs -----------------------------
(***************************************************************************)
(* Theorems about Session: the messages of a runner thread land in the     *)
(* rows they belong to, the status of a row says how far its test is, every*)
(* cursor is on a row that is there, and a form that is saved is read back.*)
(*                                                                         *)
(* SessionInv is about the rows and the threads.  ViewInv, in the second   *)
(* half, is about what is on show: the tree, the list and the overlays; it *)
(* rests on lemmas about the editors and about scanning a form.            *)
(***************************************************************************)
EXTENDS Session, WellFoundedInduction, TLAPS

-----------------------------------------------------------------------------
(* Concatenation.                                                          *)

\* A set of natural numbers that has an element has a least one.
LEMMA LeastNatural ==
  ASSUME NEW S \in SUBSET Nat, S # {}
  PROVE  \E n \in S : \A m \in S : n <= m
<1>1. PICK n \in S : \A m \in S : <<m, n>> \notin OpToRel(<, Nat)
  BY NatLessThanWellFounded, WFMin, Zenon
<1>2. ASSUME NEW m \in S PROVE n <= m
  <2>1. <<m, n>> \in Nat \X Nat
    OBVIOUS
  <2>2. ~(m < n)
    BY <1>1, <2>1, Zenon DEF OpToRel
  <2> QED BY <2>2
<1> QED BY <1>2

\* What holds of 0 and of the successor of whatever it holds of, holds up to n.
LEMMA Upward ==
  ASSUME NEW n \in Nat, NEW good, 0 \in good,
         \A i \in 1 .. n : i - 1 \in good => i \in good
  PROVE  \A i \in 0 .. n : i \in good
<1> DEFINE bad == {i \in 0 .. n : i \notin good}
<1>1. SUFFICES ASSUME bad # {} PROVE FALSE
  OBVIOUS
<1>2. PICK i \in bad : \A j \in bad : i <= j
  <2>1. bad \in SUBSET Nat
    OBVIOUS
  <2> HIDE DEF bad
  <2> QED BY <1>1, <2>1, LeastNatural
<1>3. i \in 1 .. n /\ i - 1 \in 0 .. n /\ ~(i <= i - 1)
  OBVIOUS
<1>4. i - 1 \in good
  BY <1>2, <1>3
<1> QED BY <1>2, <1>3, <1>4

\* f goes through a sequence of sequences, putting one behind the other.
Flattening(f, s, T) ==
  /\ f[0] = <<>>
  /\ \A i \in 0 .. Len(s) : f[i] \in Seq(T)
  /\ \A i \in 1 .. Len(s) : f[i] = f[i - 1] \o s[i]
  /\ FlattenSeq(s) = f[Len(s)]

\* That is how sequences are concatenated.
LEMMA FlattenLaw ==
  ASSUME NEW T, NEW s \in Seq(Seq(T))
  PROVE  \E f : Flattening(f, s, T)
<1> DEFINE Flat(n, f) == f = [i \in 1 .. n |-> IF i = 1 THEN s[1] ELSE f[i - 1] \o s[i]]
           Missing == {n \in Nat : ~ \E f : Flat(n, f)}
<1>1. Missing = {}
  <2> SUFFICES ASSUME Missing # {} PROVE FALSE
    OBVIOUS
  <2>1. PICK n \in Missing : \A m \in Missing : n <= m
    <3>1. Missing \in SUBSET Nat
      OBVIOUS
    <3> HIDE DEF Missing
    <3> QED BY <3>1, LeastNatural
  <2>2. n # 0
    <3>1. Flat(0, <<>>)
      OBVIOUS
    <3> QED BY <3>1
  <2>3. n \in Nat /\ n - 1 \in Nat /\ n - 1 \notin Missing
    <3>1. n \in Nat
      OBVIOUS
    <3>2. ~(n <= n - 1)
      BY <3>1
    <3> HIDE DEF Missing
    <3> QED BY <2>1, <2>2, <3>1, <3>2
  <2>4. PICK f : Flat(n - 1, f)
    BY <2>3
  <2> DEFINE g == [i \in 1 .. n |-> IF i < n THEN f[i]
                                  ELSE IF i = 1 THEN s[1] ELSE f[n - 1] \o s[n]]
  <2>5. Flat(n, g)
    <3>1. ASSUME NEW i \in 1 .. n
          PROVE  g[i] = IF i = 1 THEN s[1] ELSE g[i - 1] \o s[i]
      <4>1. CASE i < n
        <5>1. i \in 1 .. n - 1 /\ i - 1 < n /\ (i = 1 \/ i - 1 \in 1 .. n)
          BY <2>3, <4>1
        <5>2. f[i] = IF i = 1 THEN s[1] ELSE f[i - 1] \o s[i]
          BY <2>4, <5>1
        <5> QED BY <5>1, <5>2, <4>1
      <4>2. CASE i = n
        BY <4>2
      <4> QED BY <4>1, <4>2
    <3> HIDE DEF g
    <3>2. g = [i \in 1 .. n |-> g[i]]
      BY DEF g
    <3> QED BY <3>1, <3>2
  <2> QED BY <2>5, <2>1
<1>0. Len(s) \in Nat /\ \A i \in 1 .. Len(s) : s[i] \in Seq(T)
  OBVIOUS
<1>2. PICK f : Flat(Len(s), f)
  <2>1. \A n \in Nat : \E f : Flat(n, f)
    BY <1>1
  <2> QED BY <2>1, <1>0
<1> DEFINE flatten == CHOOSE h : h = [i \in 1 .. Len(s) |-> IF i = 1 THEN s[i] ELSE h[i - 1] \o s[i]]
<1>3. flatten = [i \in 1 .. Len(s) |-> IF i = 1 THEN s[i] ELSE flatten[i - 1] \o s[i]]
  <2>1. f = [i \in 1 .. Len(s) |-> IF i = 1 THEN s[i] ELSE f[i - 1] \o s[i]]
    BY <1>2
  <2> QED BY <2>1, Zenon
<1>4. FlattenSeq(s) = IF Len(s) = 0 THEN s ELSE flatten[Len(s)]
  BY Zenon DEF FlattenSeq
<1> HIDE DEF flatten
<1> DEFINE g == [i \in 0 .. Len(s) |-> IF i = 0 THEN <<>> ELSE flatten[i]]
<1>5. /\ g[0] = <<>>
      /\ \A i \in 1 .. Len(s) : g[i] = flatten[i] /\ i \in 0 .. Len(s) /\ i - 1 \in 0 .. Len(s)
      /\ 0 \in 0 .. Len(s) /\ <<>> \in Seq(T)
  BY <1>0
<1> HIDE DEF g
<1>6. ASSUME NEW i \in 1 .. Len(s) PROVE g[i] = g[i - 1] \o s[i]
  <2>1. CASE i = 1
    <3>1. s[1] \in Seq(T) /\ flatten[1] = s[1]
      BY <1>0, <1>3, <2>1
    <3>2. <<>> \o s[1] = s[1]
      BY <3>1
    <3>3. g[1] = s[1] /\ g[1 - 1] = <<>>
      BY <1>5, <2>1, <3>1
    <3> QED BY <2>1, <3>2, <3>3
  <2>2. CASE i # 1
    <3>1. i - 1 \in 1 .. Len(s)
      BY <1>0, <2>2
    <3>2. flatten[i] = flatten[i - 1] \o s[i]
      BY <1>3, <2>2
    <3> QED BY <1>5, <3>1, <3>2
  <2> QED BY <2>1, <2>2
<1> DEFINE good == {i \in 0 .. Len(s) : g[i] \in Seq(T)}
<1>7. \A i \in 0 .. Len(s) : i \in good
  <2>1. 0 \in good
    BY <1>5
  <2>2. ASSUME NEW i \in 1 .. Len(s), i - 1 \in good PROVE i \in good
    <3>1. g[i - 1] \in Seq(T) /\ s[i] \in Seq(T) /\ i \in 0 .. Len(s)
      BY <1>0, <1>5, <2>2
    <3>2. g[i - 1] \o s[i] \in Seq(T)
      BY <3>1
    <3> QED BY <1>6, <3>1, <3>2
  <2> HIDE DEF good
  <2> QED BY <1>0, <2>1, <2>2, Upward
<1>8. FlattenSeq(s) = g[Len(s)]
  <2>1. CASE Len(s) = 0
    <3>1. s = <<>>
      BY <2>1
    <3> QED BY <1>4, <1>5, <2>1, <3>1
  <2>2. CASE Len(s) # 0
    <3>1. Len(s) \in 1 .. Len(s)
      BY <1>0, <2>2
    <3> QED BY <1>4, <1>5, <2>2, <3>1
  <2> QED BY <2>1, <2>2
<1> QED BY <1>5, <1>6, <1>7, <1>8 DEF Flattening

\* Concatenating a sequence of sequences gives a sequence of their elements.
LEMMA FlattenType ==
  ASSUME NEW T, NEW s \in Seq(Seq(T))
  PROVE  FlattenSeq(s) \in Seq(T)
<1>1. PICK f : Flattening(f, s, T)
  BY FlattenLaw
<1>2. Len(s) \in 0 .. Len(s)
  OBVIOUS
<1> QED BY <1>1, <1>2 DEF Flattening

-----------------------------------------------------------------------------
(* The invariant.                                                          *)

Sequence(s) == s \in Seq({s[i] : i \in DOMAIN s})

LastWords == {"done", "done single", "error"}

\* What a run of those tests may send, of the generation it was started in.
Message(g, which) ==
  [what : {"started"}, test : {which[k] : k \in DOMAIN which}]
  \cup [what : {"finished"}, test : {which[k] : k \in DOMAIN which}, status : Verdicts,
        generation : {g}]
  \cup [what : LastWords]

IsRun(run) ==
  /\ DOMAIN run = {"generation", "which", "single", "at", "stage", "channel"}
  /\ run.generation \in Nat
  /\ Sequence(run.which)
  /\ run.at \in Nat
  /\ run.channel \in Seq(Message(run.generation, run.which))

\* A run that is not listened to is not heard.
ShapeInv ==
  /\ Sequence(runs)
  /\ \A r \in DOMAIN runs : IsRun(runs[r])
  /\ \A r \in DOMAIN runs : r # rx => runs[r].stage = "unheard"
  /\ rx \in {0} \cup DOMAIN runs
  /\ generation \in Nat
  /\ \A i \in DOMAIN tests : DOMAIN tests[i] = {"status", "result"}

\* The verdict on test i is under way, as message k or later.
Reported(run, i, k) ==
  \E l \in k .. Len(run.channel) :
    run.channel[l].what = "finished" /\ run.channel[l].test = i

\* The run is at test i, or has failed at it.
AtTest(run, i) ==
  /\ run.stage \in {"testing", "over"}
  /\ run.at <= Len(run.which)
  /\ run.which[run.at] = i

\* The messages under way, told from how far the run is: the last word is the
\* last one, "done" is that of a full run with no test left, and a test that
\* has started is the one the run is at, or has its verdict under way.
Orderly(run) ==
  /\ run.at \in 1 .. Len(run.which) + 1
  /\ run.stage = "testing" => run.at <= Len(run.which)
  /\ \A k \in DOMAIN run.channel :
       /\ run.channel[k].what \in LastWords => k = Len(run.channel) /\ run.stage = "over"
       /\ run.channel[k].what = "done" => ~run.single /\ run.at = Len(run.which) + 1
       /\ run.channel[k].what = "started" =>
            AtTest(run, run.channel[k].test) \/ Reported(run, run.channel[k].test, k + 1)

\* A full run is of all the rows there are, and each it has got past has its
\* verdict or will be told it.
Covers(run) ==
  ~run.single =>
    /\ run.which = [i \in DOMAIN tests |-> i]
    /\ \A i \in DOMAIN tests :
         i < run.at => tests[i].status \in Verdicts \/ Reported(run, i, 1)

HeardInv ==
  rx # 0 =>
    /\ runs[rx].generation = generation /\ runs[rx].stage # "unheard"
    /\ Orderly(runs[rx]) /\ Covers(runs[rx])

RowInv ==
  \A i \in DOMAIN tests : tests[i].status = "running" =>
    Orphaned(i) \/ (rx # 0 /\ (AtTest(runs[rx], i) \/ Reported(runs[rx], i, 1)))

DoneInv == phase = "done" => \A i \in DOMAIN tests : tests[i].status \in Verdicts

SessionInv == ShapeInv /\ HeardInv /\ RowInv /\ DoneInv /\ ResultsLand

-----------------------------------------------------------------------------
(* What the actions have in common.                                        *)

USE DEF app, overlays

\* The invariant reads nothing but these variables.
LEMMA SameRows ==
  ASSUME SessionInv, UNCHANGED <<generation, tests, runs, rx>>, phase' \in {phase, "error"}
  PROVE  SessionInv'
<1>1. ShapeInv' /\ HeardInv' /\ ResultsLand'
  BY DEF SessionInv, ShapeInv, HeardInv, Covers, ResultsLand
<1>2. RowInv'
  BY DEF SessionInv, RowInv, Orphaned
<1>3. DoneInv'
  BY DEF SessionInv, DoneInv
<1> QED BY <1>1, <1>2, <1>3 DEF SessionInv

\* A function on 1 .. n is a sequence of its elements.
LEMMA IsSequence ==
  ASSUME NEW n \in Nat, NEW f, f = [i \in 1 .. n |-> f[i]]
  PROVE  Sequence(f) /\ Len(f) = n
<1> DEFINE S == {f[i] : i \in DOMAIN f}
<1>1. f \in [1 .. n -> S]
  OBVIOUS
<1> HIDE DEF S
<1>2. f \in Seq(S)
  BY <1>1
<1>3. Sequence(f)
  BY <1>2 DEF Sequence, S
<1>4. Len(f) = n
  <2>1. Len(f) \in Nat /\ DOMAIN f = 1 .. Len(f)
    BY <1>2
  <2> QED BY <2>1, DOMAIN f = 1 .. n
<1> QED BY <1>3, <1>4

\* The run gets on: as next it is at that test, in that stage, and has sent
\* those messages.
Onward(run, next, at, stage, messages) ==
  /\ DOMAIN next = DOMAIN run
  /\ next.generation = run.generation /\ next.which = run.which
  /\ next.single = run.single
  /\ next.at = at
  /\ next.stage = stage
  /\ next.channel = run.channel \o messages

LEMMA OnwardReports ==
  ASSUME NEW run, IsRun(run), NEW at \in Nat, NEW stage,
         NEW messages \in Seq(Message(run.generation, run.which)),
         NEW next, Onward(run, next, at, stage, messages)
  PROVE  /\ IsRun(next)
         /\ Len(next.channel) = Len(run.channel) + Len(messages)
         /\ \A k \in DOMAIN run.channel : next.channel[k] = run.channel[k]
         /\ \A k \in 1 .. Len(messages) :
              next.channel[Len(run.channel) + k] = messages[k]
         /\ \A i, k : k \in Nat \ {0} /\ Reported(run, i, k) => Reported(next, i, k)
<1> DEFINE M == Message(run.generation, run.which)
<1>1. run.channel \in Seq(M) /\ messages \in Seq(M)
  BY DEF IsRun
<1> HIDE DEF M
<1>2. /\ next.channel \in Seq(M)
      /\ Len(next.channel) = Len(run.channel) + Len(messages)
      /\ \A k \in DOMAIN run.channel : next.channel[k] = run.channel[k]
      /\ \A k \in 1 .. Len(messages) : next.channel[Len(run.channel) + k] = messages[k]
  BY <1>1 DEF Onward
<1>3. IsRun(next)
  BY <1>2 DEF IsRun, M, Onward
<1>4. ASSUME NEW i, NEW k \in Nat \ {0}, Reported(run, i, k) PROVE Reported(next, i, k)
  <2>1. PICK l \in k .. Len(run.channel) :
          run.channel[l].what = "finished" /\ run.channel[l].test = i
    BY <1>4 DEF Reported
  <2>2. l \in k .. Len(next.channel) /\ l \in DOMAIN run.channel
    BY <2>1, <1>1, <1>2
  <2> QED BY <2>1, <2>2, <1>2 DEF Reported
<1> QED BY <1>2, <1>3, <1>4

\* A step of the run that is listened to.
LEMMA RunGetsOn ==
  ASSUME SessionInv, NEW r \in DOMAIN runs, NEW next, IsRun(next),
         next.generation = runs[r].generation, next.which = runs[r].which,
         next.single = runs[r].single, next.stage # "unheard", runs[r].stage # "unheard",
         runs' = [runs EXCEPT ![r] = next], UNCHANGED <<app, rx>>,
         Orderly(next), Covers(runs[r]) => Covers(next),
         \A i : AtTest(runs[r], i) \/ Reported(runs[r], i, 1)
                => AtTest(next, i) \/ Reported(next, i, 1)
  PROVE  SessionInv'
<1>1. r = rx /\ rx # 0
  <2>1. r = rx
    BY DEF SessionInv, ShapeInv
  <2>2. 0 \notin DOMAIN runs
    BY DEF SessionInv, ShapeInv, Sequence
  <2> QED BY <2>1, <2>2
<1>2. DOMAIN runs' = DOMAIN runs /\ runs'[r] = next
      /\ \A q \in DOMAIN runs \ {r} : runs'[q] = runs[q]
  OBVIOUS
<1>3. ShapeInv'
  <2>1. Sequence(runs')
    <3>1. Len(runs) \in Nat /\ DOMAIN runs = 1 .. Len(runs)
      BY DEF SessionInv, ShapeInv, Sequence
    <3> QED BY <3>1, IsSequence
  <2> QED BY <1>1, <1>2, <2>1 DEF SessionInv, ShapeInv
<1>4. HeardInv'
  BY <1>1, <1>2 DEF SessionInv, HeardInv, Covers
<1>5. ASSUME NEW i, Orphaned(i) PROVE Orphaned(i)'
  BY <1>1, <1>2, <1>5 DEF Orphaned
<1>6. RowInv'
  BY <1>1, <1>2, <1>5 DEF SessionInv, RowInv
<1>7. DoneInv' /\ ResultsLand'
  BY DEF SessionInv, DoneInv, ResultsLand
<1> QED BY <1>3, <1>4, <1>6, <1>7 DEF SessionInv

-----------------------------------------------------------------------------
(* The threads.                                                            *)

\* What the invariant says of the run that has something to do.
LEMMA TheRun ==
  ASSUME SessionInv, NEW r \in DOMAIN runs, runs[r].stage # "unheard"
  PROVE  /\ IsRun(runs[r]) /\ Orderly(runs[r]) /\ Covers(runs[r])
         /\ Len(runs[r].which) \in Nat /\ DOMAIN runs[r].which = 1 .. Len(runs[r].which)
         /\ Len(runs[r].channel) \in Nat
         /\ DOMAIN runs[r].channel = 1 .. Len(runs[r].channel)
         /\ runs[r].generation = generation
<1>1. r = rx /\ IsRun(runs[r])
  BY DEF SessionInv, ShapeInv
<1>2. 0 \notin DOMAIN runs
  BY DEF SessionInv, ShapeInv, Sequence
<1>3. Orderly(runs[r]) /\ Covers(runs[r]) /\ runs[r].generation = generation
  BY <1>1, <1>2 DEF SessionInv, HeardInv
<1> QED BY <1>1, <1>3 DEF IsRun, Sequence

\* The two forms in which a run goes on.
LEMMA GoesOn ==
  ASSUME NEW run, IsRun(run), NEW stage,
         NEW messages \in Seq(Message(run.generation, run.which))
  PROVE  /\ Onward(run, [[run EXCEPT !.stage = stage] EXCEPT !.channel = @ \o messages],
                   run.at, stage, messages)
         /\ Onward(run, [[run EXCEPT !.stage = stage, !.at = @ + 1] EXCEPT
                           !.channel = @ \o messages],
                   run.at + 1, stage, messages)
<1> DEFINE M == Message(run.generation, run.which)
<1>1. run.channel \in Seq(M) /\ messages \in Seq(M)
  BY DEF IsRun
<1> HIDE DEF M
<1> QED BY <1>1 DEF IsRun, Onward

\* So do the runs: the one that sends is the one that gets on.
LEMMA SendsOnward ==
  ASSUME NEW r \in DOMAIN runs, IsRun(runs[r]), NEW stage,
         NEW messages \in Seq(Message(runs[r].generation, runs[r].which))
  PROVE  /\ Sends(r, [runs[r] EXCEPT !.stage = stage], messages)
              => \E next : /\ Onward(runs[r], next, runs[r].at, stage, messages)
                            /\ runs' = [runs EXCEPT ![r] = next]
         /\ Sends(r, [runs[r] EXCEPT !.stage = stage, !.at = @ + 1], messages)
              => \E next : /\ Onward(runs[r], next, runs[r].at + 1, stage, messages)
                            /\ runs' = [runs EXCEPT ![r] = next]
<1>1. ASSUME Sends(r, [runs[r] EXCEPT !.stage = stage], messages)
      PROVE  \E next : /\ Onward(runs[r], next, runs[r].at, stage, messages)
                        /\ runs' = [runs EXCEPT ![r] = next]
  <2> WITNESS [[runs[r] EXCEPT !.stage = stage] EXCEPT !.channel = @ \o messages]
  <2> QED BY <1>1, GoesOn, Zenon DEF Sends
<1>2. ASSUME Sends(r, [runs[r] EXCEPT !.stage = stage, !.at = @ + 1], messages)
      PROVE  \E next : /\ Onward(runs[r], next, runs[r].at + 1, stage, messages)
                        /\ runs' = [runs EXCEPT ![r] = next]
  <2> WITNESS [[runs[r] EXCEPT !.stage = stage, !.at = @ + 1] EXCEPT !.channel = @ \o messages]
  <2> QED BY <1>2, GoesOn, Zenon DEF Sends
<1> QED BY <1>1, <1>2

LEMMA BuildStep ==
  ASSUME SessionInv, NEW r \in DOMAIN runs, Build(r), UNCHANGED <<app, rx>>
  PROVE  SessionInv'
<1> DEFINE run == runs[r]
<1>1. run.stage = "building"
  BY DEF Build
<1>2. /\ IsRun(run) /\ Orderly(run) /\ run.at \in Nat
      /\ Len(run.channel) \in Nat /\ DOMAIN run.channel = 1 .. Len(run.channel)
      /\ Len(run.which) \in Nat
  BY TheRun, <1>1 DEF IsRun
<1> DEFINE none == <<>>
<1>3. none \in Seq(Message(run.generation, run.which)) /\ Len(none) = 0
  OBVIOUS
<1>4. PICK next : Onward(run, next, run.at, "ready", none) /\ runs' = [runs EXCEPT ![r] = next]
  BY <1>2, <1>3, SendsOnward, Zenon DEF Build
<1> HIDE DEF none
<1>5. /\ IsRun(next) /\ Len(next.channel) = Len(run.channel)
      /\ \A k \in DOMAIN run.channel : next.channel[k] = run.channel[k]
      /\ \A i, k : k \in Nat \ {0} /\ Reported(run, i, k) => Reported(next, i, k)
  <2>1. /\ IsRun(next)
        /\ Len(next.channel) = Len(run.channel) + Len(none)
        /\ \A k \in DOMAIN run.channel : next.channel[k] = run.channel[k]
        /\ \A k \in 1 .. Len(none) : next.channel[Len(run.channel) + k] = none[k]
        /\ \A i, k : k \in Nat \ {0} /\ Reported(run, i, k) => Reported(next, i, k)
    BY <1>2, <1>3, <1>4, OnwardReports, Zenon
  <2>2. Len(run.channel) + Len(none) = Len(run.channel)
    BY <1>2, <1>3 DEF IsRun
  <2> QED BY <2>1, <2>2
<1>6. /\ next.generation = run.generation /\ next.which = run.which
      /\ next.single = run.single /\ next.at = run.at /\ next.stage = "ready"
  BY <1>4 DEF Onward
<1>7. \A i : ~AtTest(run, i)
  BY <1>1 DEF AtTest
<1>8. Orderly(next)
  <2>1. DOMAIN next.channel = DOMAIN run.channel
    BY <1>2, <1>5 DEF IsRun
  <2>2. ASSUME NEW k \in DOMAIN run.channel
        PROVE  /\ run.channel[k].what \notin LastWords
               /\ run.channel[k].what # "done"
               /\ run.channel[k].what = "started" =>
                    Reported(run, run.channel[k].test, k + 1)
    BY <1>1, <1>2, <1>7 DEF Orderly, LastWords
  <2>3. \A k \in DOMAIN run.channel : k + 1 \in Nat \ {0}
    BY <1>2
  <2>4. /\ next.at \in 1 .. Len(next.which) + 1
        /\ next.stage # "testing"
    BY <1>2, <1>6 DEF Orderly
  <2> QED BY <1>5, <2>1, <2>2, <2>3, <2>4 DEF Orderly
<1>9. Covers(run) => Covers(next)
  BY <1>5, <1>6 DEF Covers
<1>10. runs[r].stage # "unheard" /\ next.stage # "unheard"
  BY <1>1, <1>6
<1>11. \A i : AtTest(runs[r], i) \/ Reported(runs[r], i, 1)
                => AtTest(next, i) \/ Reported(next, i, 1)
  BY <1>5, <1>7
<1> QED BY <1>4, <1>5, <1>6, <1>8, <1>9, <1>10, <1>11, RunGetsOn

\* A run that gets on with one message more.
LEMMA RunTells ==
  ASSUME SessionInv, NEW r \in DOMAIN runs, runs[r].stage \notin {"unheard", "over"},
         NEW at \in Nat, NEW stage,
         NEW m \in Message(runs[r].generation, runs[r].which),
         NEW next, Onward(runs[r], next, at, stage, <<m>>)
  PROVE  LET run == runs[r]
         IN /\ IsRun(next)
            /\ Len(next.channel) = Len(run.channel) + 1
            /\ DOMAIN next.channel = DOMAIN run.channel \cup {Len(run.channel) + 1}
            /\ \A k \in DOMAIN run.channel :
                 /\ next.channel[k] = run.channel[k]
                 /\ run.channel[k].what \notin LastWords
                 /\ run.channel[k].what = "started" =>
                      \/ AtTest(run, run.channel[k].test)
                      \/ Reported(next, run.channel[k].test, k + 1)
            /\ next.channel[Len(run.channel) + 1] = m
            /\ \A i : Reported(run, i, 1) => Reported(next, i, 1)
<1> DEFINE run == runs[r]
<1>1. /\ IsRun(run) /\ Orderly(run)
      /\ Len(run.channel) \in Nat /\ DOMAIN run.channel = 1 .. Len(run.channel)
  BY TheRun
<1> DEFINE ms == <<m>>
<1>2. ms \in Seq(Message(run.generation, run.which)) /\ Len(ms) = 1 /\ ms[1] = m
  OBVIOUS
<1>3. Onward(run, next, at, stage, ms)
  OBVIOUS
<1> HIDE DEF ms
<1>4. /\ IsRun(next)
      /\ Len(next.channel) = Len(run.channel) + Len(ms)
      /\ \A k \in DOMAIN run.channel : next.channel[k] = run.channel[k]
      /\ \A k \in 1 .. Len(ms) : next.channel[Len(run.channel) + k] = ms[k]
      /\ \A i, k : k \in Nat \ {0} /\ Reported(run, i, k) => Reported(next, i, k)
  BY <1>1, <1>2, <1>3, OnwardReports, Zenon
<1>5. Len(next.channel) = Len(run.channel) + 1 /\ next.channel[Len(run.channel) + 1] = m
  BY <1>2, <1>4
<1>6. DOMAIN next.channel = DOMAIN run.channel \cup {Len(run.channel) + 1}
  <2>1. DOMAIN next.channel = 1 .. Len(next.channel)
    BY <1>4 DEF IsRun
  <2> QED BY <1>1, <1>5, <2>1
<1>7. ASSUME NEW k \in DOMAIN run.channel
      PROVE  /\ run.channel[k].what \notin LastWords
             /\ run.channel[k].what = "started" =>
                  \/ AtTest(run, run.channel[k].test)
                  \/ Reported(next, run.channel[k].test, k + 1)
  <2>1. k + 1 \in Nat \ {0}
    BY <1>1
  <2> QED BY <1>1, <1>4, <2>1 DEF Orderly
<1>8. \A i : Reported(run, i, 1) => Reported(next, i, 1)
  BY <1>4
<1> QED BY <1>4, <1>5, <1>6, <1>7, <1>8

\* Such a run keeps the invariant if its new message is in order, if it stays
\* at its test, has told its verdict, or was at none, and if it has got past
\* no test without telling its verdict.
LEMMA TellingStep ==
  ASSUME SessionInv, NEW r \in DOMAIN runs, runs[r].stage \notin {"unheard", "over"},
         NEW at \in 1 .. Len(runs[r].which) + 1, NEW stage, stage # "unheard",
         stage = "testing" => at <= Len(runs[r].which),
         NEW m \in Message(runs[r].generation, runs[r].which),
         NEW next, Onward(runs[r], next, at, stage, <<m>>),
         runs' = [runs EXCEPT ![r] = next], UNCHANGED <<app, rx>>,
         m.what \in LastWords => stage = "over",
         m.what = "done" => ~runs[r].single /\ at = Len(runs[r].which) + 1,
         m.what = "started" => AtTest(next, m.test),
         \A i : AtTest(runs[r], i) => AtTest(next, i) \/ (m.what = "finished" /\ m.test = i),
         \/ at = runs[r].at
         \/ at = runs[r].at + 1 /\ m.what = "finished" /\ m.test = runs[r].which[runs[r].at]
  PROVE  SessionInv'
<1> DEFINE run == runs[r]
           last == Len(run.channel) + 1
<1>1. /\ IsRun(run) /\ Orderly(run) /\ Len(run.which) \in Nat
      /\ Len(run.channel) \in Nat /\ DOMAIN run.channel = 1 .. Len(run.channel)
      /\ DOMAIN run.which = 1 .. Len(run.which)
  BY TheRun
<1>2. at \in Nat
  BY <1>1
<1>3. /\ IsRun(next)
      /\ Len(next.channel) = last
      /\ DOMAIN next.channel = DOMAIN run.channel \cup {last}
      /\ \A k \in DOMAIN run.channel :
           /\ next.channel[k] = run.channel[k]
           /\ run.channel[k].what \notin LastWords
           /\ run.channel[k].what = "started" =>
                \/ AtTest(run, run.channel[k].test)
                \/ Reported(next, run.channel[k].test, k + 1)
      /\ next.channel[last] = m
      /\ \A i : Reported(run, i, 1) => Reported(next, i, 1)
  BY <1>2, RunTells, Zenon
<1>4. /\ next.generation = run.generation /\ next.which = run.which
      /\ next.single = run.single /\ next.at = at /\ next.stage = stage
  BY DEF Onward
<1>5. ASSUME NEW i, m.what = "finished", m.test = i, NEW k \in 1 .. last PROVE Reported(next, i, k)
  BY <1>1, <1>3, <1>5 DEF Reported
<1>6. Orderly(next)
  <2>1. ASSUME NEW k \in DOMAIN run.channel, next.channel[k].what = "started"
        PROVE  AtTest(next, next.channel[k].test) \/ Reported(next, next.channel[k].test, k + 1)
    <3>1. k + 1 \in 1 .. last
      BY <1>1
    <3> QED BY <1>3, <1>5, <2>1, <3>1
  <2>2. ASSUME NEW k \in DOMAIN run.channel PROVE next.channel[k].what \notin LastWords
    BY <1>3
  <2>3. "done" \in LastWords
    BY DEF LastWords
  <2> HIDE DEF run, last
  <2> QED BY <1>3, <1>4, <2>1, <2>2, <2>3 DEF Orderly, run, last
<1>7. Covers(run) => Covers(next)
  <2> SUFFICES ASSUME Covers(run), ~run.single,
                      NEW i \in DOMAIN tests, i < at, tests[i].status \notin Verdicts
               PROVE  Reported(next, i, 1)
    BY <1>4 DEF Covers
  <2>1. run.which = [j \in DOMAIN tests |-> j]
    BY DEF Covers
  <2>2. i \in 1 .. Len(run.which) /\ run.at \in Nat
    BY <1>1, <2>1 DEF IsRun
  <2>3. CASE i < run.at
    BY <1>3, <2>3 DEF Covers
  <2>4. CASE ~(i < run.at)
    <3>1. i = run.at /\ m.what = "finished" /\ m.test = run.which[i]
      BY <2>2, <2>4
    <3>2. m.test = i /\ 1 \in 1 .. last
      BY <1>1, <2>1, <3>1
    <3> QED BY <1>5, <3>1, <3>2
  <2> QED BY <2>3, <2>4
<1>8. \A i : AtTest(run, i) \/ Reported(run, i, 1) => AtTest(next, i) \/ Reported(next, i, 1)
  <2>1. 1 \in 1 .. last
    BY <1>1
  <2> QED BY <1>3, <1>5, <2>1
<1>9. runs[r].stage # "unheard" /\ next.stage # "unheard"
  BY <1>4
<1> HIDE DEF last
<1> QED BY <1>3, <1>4, <1>6, <1>7, <1>8, <1>9, RunGetsOn

\* The messages of the four steps are of the run.
LEMMA Messages ==
  ASSUME NEW g, NEW which, NEW k \in DOMAIN which, NEW verdict \in Verdicts, NEW w \in LastWords
  PROVE  /\ [what |-> "started", test |-> which[k]] \in Message(g, which)
         /\ [what |-> "finished", test |-> which[k], status |-> verdict, generation |-> g]
              \in Message(g, which)
         /\ [what |-> w] \in Message(g, which)
<1>1. which[k] \in {which[l] : l \in DOMAIN which}
  OBVIOUS
<1> QED BY <1>1 DEF Message

LEMMA BeginStep ==
  ASSUME SessionInv, NEW r \in DOMAIN runs, Begin(r), UNCHANGED <<app, rx>>
  PROVE  SessionInv'
<1> DEFINE run == runs[r]
           m == [what |-> "started", test |-> run.which[run.at]]
<1>1. run.stage = "ready" /\ run.at <= Len(run.which)
  BY DEF Begin
<1>2. /\ IsRun(run) /\ Orderly(run) /\ Len(run.which) \in Nat
      /\ run.at \in 1 .. Len(run.which) + 1 /\ run.at \in DOMAIN run.which
  BY <1>1, TheRun DEF Orderly
<1>3. m \in Message(run.generation, run.which)
  BY <1>2 DEF Message
<1> DEFINE ms == <<m>>
<1>4. ms \in Seq(Message(run.generation, run.which))
  BY <1>3
<1>5. PICK next : Onward(run, next, run.at, "testing", ms) /\ runs' = [runs EXCEPT ![r] = next]
  BY <1>2, <1>4, SendsOnward, Zenon DEF Begin
<1>6. AtTest(next, m.test)
  BY <1>1, <1>5 DEF AtTest, Onward
<1>7. \A i : ~AtTest(run, i)
  BY <1>1 DEF AtTest
<1>8. m.what = "started" /\ m.what \notin LastWords
  BY DEF LastWords
<1>9. Onward(run, next, run.at, "testing", <<m>>)
  BY <1>5
<1>10. run.stage \notin {"unheard", "over"}
  BY <1>1
<1> HIDE DEF m, ms
<1> QED BY <1>1, <1>2, <1>3, <1>5, <1>6, <1>7, <1>8, <1>9, <1>10, TellingStep

LEMMA TestEndsStep ==
  ASSUME SessionInv, NEW r \in DOMAIN runs, TestEnds(r), UNCHANGED <<app, rx>>
  PROVE  SessionInv'
<1> DEFINE run == runs[r]
<1>1. run.stage = "testing"
  BY DEF TestEnds
<1>2. /\ IsRun(run) /\ Orderly(run) /\ Len(run.which) \in Nat
      /\ run.at \in DOMAIN run.which /\ run.at + 1 \in 1 .. Len(run.which) + 1
  BY <1>1, TheRun DEF Orderly
<1>3. PICK verdict \in Verdicts :
        Sends(r, [run EXCEPT !.stage = "ready", !.at = @ + 1],
              <<[what |-> "finished", test |-> run.which[run.at],
                 status |-> verdict, generation |-> run.generation]>>)
  BY DEF TestEnds
<1> DEFINE m == [what |-> "finished", test |-> run.which[run.at],
                 status |-> verdict, generation |-> run.generation]
           ms == <<m>>
<1>4. m \in Message(run.generation, run.which)
  BY <1>2, <1>3, Messages, "error" \in LastWords DEF LastWords
<1>5. ms \in Seq(Message(run.generation, run.which))
  BY <1>4
<1>6. PICK next : Onward(run, next, run.at + 1, "ready", ms) /\ runs' = [runs EXCEPT ![r] = next]
  BY <1>2, <1>3, <1>5, SendsOnward, Zenon
<1>7. m.what = "finished" /\ m.what \notin LastWords /\ m.test = run.which[run.at]
  BY DEF LastWords
<1>8. \A i : AtTest(run, i) => m.test = i
  BY <1>7 DEF AtTest
<1>9. Onward(run, next, run.at + 1, "ready", <<m>>)
  BY <1>6
<1>10. run.stage \notin {"unheard", "over"}
  BY <1>1
<1>11. "done" \in LastWords
  BY DEF LastWords
<1> HIDE DEF m, ms
<1> QED BY <1>2, <1>4, <1>6, <1>7, <1>8, <1>9, <1>10, <1>11, TellingStep

LEMMA RunFailsStep ==
  ASSUME SessionInv, NEW r \in DOMAIN runs, RunFails(r), UNCHANGED <<app, rx>>
  PROVE  SessionInv'
<1> DEFINE run == runs[r]
           m == [what |-> "error"]
           ms == <<m>>
<1>1. run.stage \in {"building", "testing"}
  BY DEF RunFails
<1>2. /\ IsRun(run) /\ Orderly(run) /\ run.at \in 1 .. Len(run.which) + 1
  BY <1>1, TheRun DEF Orderly
<1>3. m \in Message(run.generation, run.which)
  BY DEF Message, LastWords
<1>4. ms \in Seq(Message(run.generation, run.which))
  BY <1>3
<1>5. PICK next : Onward(run, next, run.at, "over", ms) /\ runs' = [runs EXCEPT ![r] = next]
  BY <1>2, <1>4, SendsOnward, Zenon DEF RunFails
<1>6. \A i : AtTest(run, i) => AtTest(next, i)
  BY <1>1, <1>5 DEF AtTest, Onward
<1>7. m.what = "error"
  OBVIOUS
<1>8. Onward(run, next, run.at, "over", <<m>>)
  BY <1>5
<1>9. run.stage \notin {"unheard", "over"}
  BY <1>1
<1> HIDE DEF m, ms
<1> QED BY <1>2, <1>3, <1>5, <1>6, <1>7, <1>8, <1>9, TellingStep

LEMMA RunEndsStep ==
  ASSUME SessionInv, NEW r \in DOMAIN runs, RunEnds(r), UNCHANGED <<app, rx>>
  PROVE  SessionInv'
<1> DEFINE run == runs[r]
           m == [what |-> IF run.single THEN "done single" ELSE "done"]
           ms == <<m>>
<1>1. run.stage = "ready" /\ run.at > Len(run.which)
  BY DEF RunEnds
<1>2. /\ IsRun(run) /\ Orderly(run) /\ run.at \in 1 .. Len(run.which) + 1
      /\ Len(run.which) \in Nat
  BY <1>1, TheRun DEF Orderly
<1>3. m \in Message(run.generation, run.which)
  BY DEF Message, LastWords
<1>4. ms \in Seq(Message(run.generation, run.which))
  <2> HIDE DEF m
  <2> QED BY <1>3
<1>5. PICK next : Onward(run, next, run.at, "over", ms) /\ runs' = [runs EXCEPT ![r] = next]
  <2>1. Sends(r, [runs[r] EXCEPT !.stage = "over"], ms)
    BY Zenon DEF RunEnds, LastWord
  <2> HIDE DEF ms
  <2> QED BY <1>2, <1>4, <2>1, SendsOnward, Zenon
<1>6. \A i : ~AtTest(run, i)
  BY <1>1 DEF AtTest
<1>7. m.what = IF run.single THEN "done single" ELSE "done"
  OBVIOUS
<1>8. Onward(run, next, run.at, "over", <<m>>)
  BY <1>5
<1>9. run.stage \notin {"unheard", "over"} /\ run.at = Len(run.which) + 1
  BY <1>1, <1>2
<1>10. m.what \notin {"started", "finished"} /\ (m.what = "done" => ~run.single)
  BY <1>7
<1> HIDE DEF m, ms
<1> QED BY <1>2, <1>3, <1>5, <1>6, <1>8, <1>9, <1>10, TellingStep

LEMMA ThreadStep ==
  ASSUME SessionInv, NEW r \in DOMAIN runs, Thread(r)
  PROVE  SessionInv'
<1>1. UNCHANGED <<app, rx>>
  BY DEF Thread
<1> QED BY <1>1, BuildStep, BeginStep, TestEndsStep, RunFailsStep, RunEndsStep DEF Thread

-----------------------------------------------------------------------------
(* A message is taken from the channel.                                    *)

\* The channel that has lost its first message.
LEMMA Shorter ==
  ASSUME NEW run, IsRun(run), Orderly(run), run.channel # <<>>,
         NEW next, next = [run EXCEPT !.channel = Tail(@)]
  PROVE  /\ IsRun(next) /\ Orderly(next)
         /\ Head(run.channel) = run.channel[1] /\ 1 \in DOMAIN run.channel
         /\ run.channel[1] \in Message(run.generation, run.which)
         /\ next.generation = run.generation /\ next.which = run.which
         /\ next.single = run.single /\ next.at = run.at /\ next.stage = run.stage
         /\ \A i : AtTest(run, i) => AtTest(next, i)
         /\ \A i, k : k \in Nat \ {0} /\ Reported(run, i, k + 1) => Reported(next, i, k)
         /\ \A i : Reported(run, i, 1)
                   => \/ Reported(run, i, 2)
                      \/ run.channel[1].what = "finished" /\ run.channel[1].test = i
<1> DEFINE M == Message(run.generation, run.which)
<1>1. /\ DOMAIN next = DOMAIN run
      /\ next.generation = run.generation /\ next.which = run.which
      /\ next.single = run.single /\ next.at = run.at /\ next.stage = run.stage
      /\ next.channel = Tail(run.channel)
  BY DEF IsRun
<1>2. run.channel \in Seq(M)
  BY DEF IsRun
<1> HIDE DEF M
<1>3. /\ next.channel \in Seq(M)
      /\ Len(run.channel) \in Nat \ {0} /\ Len(next.channel) = Len(run.channel) - 1
      /\ \A k \in 1 .. Len(next.channel) : next.channel[k] = run.channel[k + 1]
      /\ Head(run.channel) = run.channel[1] /\ 1 \in DOMAIN run.channel /\ run.channel[1] \in M
      /\ DOMAIN next.channel = 1 .. Len(next.channel)
      /\ DOMAIN run.channel = 1 .. Len(run.channel)
  BY <1>1, <1>2
<1>4. IsRun(next)
  BY <1>1, <1>3 DEF IsRun, M
<1>5. \A i : AtTest(run, i) => AtTest(next, i)
  BY <1>1 DEF AtTest
<1>6. ASSUME NEW i, NEW k \in Nat \ {0}, Reported(run, i, k + 1) PROVE Reported(next, i, k)
  <2>1. PICK l \in k + 1 .. Len(run.channel) :
          run.channel[l].what = "finished" /\ run.channel[l].test = i
    BY <1>6 DEF Reported
  <2>2. l - 1 \in k .. Len(next.channel) /\ next.channel[l - 1] = run.channel[l]
    BY <1>3, <2>1
  <2> QED BY <2>1, <2>2 DEF Reported
<1>7. ASSUME NEW i, Reported(run, i, 1), ~Reported(run, i, 2)
      PROVE  run.channel[1].what = "finished" /\ run.channel[1].test = i
  <2>1. PICK l \in 1 .. Len(run.channel) :
          run.channel[l].what = "finished" /\ run.channel[l].test = i
    BY <1>7 DEF Reported
  <2>2. l \notin 2 .. Len(run.channel)
    BY <1>7, <2>1 DEF Reported
  <2>3. l = 1
    BY <1>3, <2>1, <2>2
  <2> QED BY <2>1, <2>3
<1>8. Orderly(next)
  <2>1. ASSUME NEW k \in DOMAIN next.channel
        PROVE  /\ next.channel[k].what \in LastWords =>
                    k = Len(next.channel) /\ next.stage = "over"
               /\ next.channel[k].what = "done" => ~next.single /\ next.at = Len(next.which) + 1
               /\ next.channel[k].what = "started" =>
                    AtTest(next, next.channel[k].test) \/ Reported(next, next.channel[k].test, k + 1)
    <3>1. k + 1 \in DOMAIN run.channel /\ next.channel[k] = run.channel[k + 1]
          /\ k + 1 \in Nat \ {0} /\ k \in Nat \ {0}
      BY <1>3
    <3>2. run.channel[k + 1].what \in LastWords => k = Len(next.channel) /\ next.stage = "over"
      BY <1>1, <1>3, <3>1 DEF Orderly
    <3>3. run.channel[k + 1].what = "done" => ~next.single /\ next.at = Len(next.which) + 1
      BY <1>1, <3>1 DEF Orderly
    <3>4. ASSUME run.channel[k + 1].what = "started"
          PROVE  \/ AtTest(next, run.channel[k + 1].test)
                 \/ Reported(next, run.channel[k + 1].test, k + 1)
      <4>1. \/ AtTest(run, run.channel[k + 1].test)
            \/ Reported(run, run.channel[k + 1].test, (k + 1) + 1)
        BY <3>1, <3>4 DEF Orderly
      <4> QED BY <1>5, <1>6, <3>1, <4>1
    <3> QED BY <3>1, <3>2, <3>3, <3>4
  <2>2. next.at \in 1 .. Len(next.which) + 1
        /\ (next.stage = "testing" => next.at <= Len(next.which))
    BY <1>1 DEF Orderly
  <2> QED BY <2>1, <2>2 DEF Orderly
<1> QED BY <1>1, <1>3, <1>4, <1>5, <1>6, <1>7, <1>8 DEF M

\* What a message does to the rows: nothing, but to the one it names.
LEMMA HandleRows ==
  ASSUME SessionInv, NEW m, Handle(m),
         m.what \in {"started", "finished"} \cup LastWords
  PROVE  /\ DOMAIN tests' = DOMAIN tests
         /\ \A i \in DOMAIN tests :
              \/ tests'[i] = tests[i] /\ ~(m.what \in {"started", "finished"} /\ m.test = i)
              \/ /\ m.what = "started" /\ m.test = i
                 /\ DOMAIN tests'[i] = {"status", "result"}
                 /\ tests'[i].status = "running" /\ tests'[i].result = tests[i].result
              \/ /\ m.what = "finished" /\ m.test = i
                 /\ DOMAIN tests'[i] = {"status", "result"}
                 /\ tests'[i].status = m.status /\ tests'[i].result = <<m>>
         /\ phase' = "done" => m.what = "done" \/ (m.what = "finished" /\ phase' = phase)
<1>0. \A i \in DOMAIN tests : DOMAIN tests[i] = {"status", "result"}
  BY DEF SessionInv, ShapeInv
<1>1. CASE m.what = "started"
  <2>1. /\ phase' = "running"
        /\ tests' = [i \in DOMAIN tests |->
                       IF i = m.test THEN [tests[i] EXCEPT !.status = "running"] ELSE tests[i]]
    BY <1>1 DEF Handle
  <2>2. ASSUME NEW i \in DOMAIN tests, i = m.test
        PROVE  /\ DOMAIN tests'[i] = {"status", "result"}
               /\ tests'[i].status = "running" /\ tests'[i].result = tests[i].result
    BY <1>0, <2>1, <2>2
  <2>3. DOMAIN tests' = DOMAIN tests /\ \A i \in DOMAIN tests : i # m.test => tests'[i] = tests[i]
    BY <2>1
  <2> QED BY <1>1, <2>1, <2>2, <2>3
<1>2. CASE m.what = "finished"
  <2>1. /\ UNCHANGED phase
        /\ tests' = [i \in DOMAIN tests |->
                       IF i = m.test THEN [status |-> m.status, result |-> <<m>>] ELSE tests[i]]
    BY <1>2 DEF Handle
  <2> QED BY <1>2, <2>1
<1>3. CASE m.what \in LastWords
  <2>1. UNCHANGED tests
    BY <1>3 DEF Handle, LastWords
  <2>2. phase' = "done" => m.what = "done"
    BY <1>3 DEF Handle, LastWords
  <2>3. m.what \notin {"started", "finished"}
    BY <1>3 DEF LastWords
  <2> QED BY <2>1, <2>2, <2>3
<1> QED BY <1>1, <1>2, <1>3

LEMMA ReceiveStep ==
  ASSUME SessionInv, Receive
  PROVE  SessionInv'
<1> DEFINE run == runs[rx]
           next == [run EXCEPT !.channel = Tail(@)]
           m == run.channel[1]
<1>1. rx # 0 /\ run.channel # <<>> /\ UNCHANGED <<generation, rx>>
      /\ Handle(Head(run.channel)) /\ runs' = [runs EXCEPT ![rx].channel = Tail(@)]
  BY DEF Receive
<1>2. rx \in DOMAIN runs
  BY <1>1 DEF SessionInv, ShapeInv
<1>3. IsRun(run) /\ Orderly(run) /\ Covers(run) /\ run.generation = generation
      /\ run.stage # "unheard"
  BY <1>1, <1>2 DEF SessionInv, ShapeInv, HeardInv
<1>4. /\ DOMAIN runs' = DOMAIN runs /\ runs'[rx] = next
      /\ \A r \in DOMAIN runs \ {rx} : runs'[r] = runs[r]
  BY <1>1, <1>2, <1>3 DEF IsRun
<1>5. /\ IsRun(next) /\ Orderly(next)
      /\ Head(run.channel) = m /\ 1 \in DOMAIN run.channel
      /\ m \in Message(run.generation, run.which)
      /\ next.generation = run.generation /\ next.which = run.which
      /\ next.single = run.single /\ next.at = run.at /\ next.stage = run.stage
      /\ \A i : AtTest(run, i) => AtTest(next, i)
      /\ \A i, k : k \in Nat \ {0} /\ Reported(run, i, k + 1) => Reported(next, i, k)
      /\ \A i : Reported(run, i, 1)
                => Reported(run, i, 2) \/ (m.what = "finished" /\ m.test = i)
  BY <1>1, <1>3, Shorter, Zenon
<1>6. /\ DOMAIN run.which = 1 .. Len(run.which) /\ Len(run.which) \in Nat
      /\ DOMAIN run.channel = 1 .. Len(run.channel) /\ run.at \in Nat
  BY <1>3 DEF IsRun, Sequence
<1>7. m.what \in {"started", "finished"} \cup LastWords
      /\ (m.what = "finished" => m.status \in Verdicts /\ m.generation = generation)
  BY <1>3, <1>5 DEF Message, LastWords
<1>8. Handle(m)
  BY <1>1, <1>5
<1> HIDE DEF next, run
<1>9. \A i : Reported(run, i, 2) => Reported(next, i, 1)
  <2>1. \A i : Reported(run, i, 1 + 1) => Reported(next, i, 1)
    BY <1>5
  <2> QED BY <2>1
<1>10. m.what = "started" => AtTest(run, m.test) \/ Reported(run, m.test, 2)
  <2>1. m.what = "started" => AtTest(run, m.test) \/ Reported(run, m.test, 1 + 1)
    BY <1>3, <1>5 DEF Orderly
  <2> QED BY <2>1
<1>11. m.what = "done" => Len(run.channel) = 1 /\ ~run.single /\ run.at = Len(run.which) + 1
  BY <1>3, <1>5 DEF Orderly, LastWords
<1> HIDE DEF m
<1>12. /\ DOMAIN tests' = DOMAIN tests
       /\ \A i \in DOMAIN tests :
            \/ tests'[i] = tests[i] /\ ~(m.what \in {"started", "finished"} /\ m.test = i)
            \/ /\ m.what = "started" /\ m.test = i
               /\ DOMAIN tests'[i] = {"status", "result"}
               /\ tests'[i].status = "running" /\ tests'[i].result = tests[i].result
            \/ /\ m.what = "finished" /\ m.test = i
               /\ DOMAIN tests'[i] = {"status", "result"}
               /\ tests'[i].status = m.status /\ tests'[i].result = <<m>>
       /\ phase' = "done" => m.what = "done" \/ (m.what = "finished" /\ phase' = phase)
  BY <1>7, <1>8, HandleRows, Zenon
<1>13. ShapeInv'
  <2>1. Sequence(runs')
    <3>1. Len(runs) \in Nat /\ DOMAIN runs = 1 .. Len(runs)
      BY DEF SessionInv, ShapeInv, Sequence
    <3>2. runs' = [r \in 1 .. Len(runs) |-> runs'[r]]
      BY <1>1, <1>4, <3>1
    <3> QED BY <3>1, <3>2, IsSequence
  <2>2. \A r \in DOMAIN runs' : IsRun(runs'[r]) /\ (r # rx => runs'[r].stage = "unheard")
    BY <1>4, <1>5 DEF SessionInv, ShapeInv
  <2>3. \A i \in DOMAIN tests' : DOMAIN tests'[i] = {"status", "result"}
    BY <1>12 DEF SessionInv, ShapeInv
  <2> QED BY <1>1, <1>2, <1>4, <2>1, <2>2, <2>3 DEF SessionInv, ShapeInv
<1>14. Covers(runs[rx])'
  <2> SUFFICES ASSUME ~run.single
               PROVE  /\ run.which = [i \in DOMAIN tests |-> i]
                      /\ \A i \in DOMAIN tests :
                           i < run.at => tests'[i].status \in Verdicts \/ Reported(next, i, 1)
    BY <1>1, <1>4, <1>5, <1>12 DEF Covers
  <2>1. run.which = [i \in DOMAIN tests |-> i]
    BY <1>3 DEF Covers
  <2>2. ASSUME NEW i \in DOMAIN tests, i < run.at
        PROVE  tests'[i].status \in Verdicts \/ Reported(next, i, 1)
    <3>1. tests[i].status \in Verdicts \/ Reported(run, i, 1)
      BY <1>3, <2>2 DEF Covers
    <3>2. ~AtTest(run, i)
      <4>1. run.at <= Len(run.which) => run.which[run.at] = run.at
        BY <1>6, <2>1, <2>2
      <4> QED BY <1>6, <2>1, <2>2, <4>1 DEF AtTest
    <3> QED BY <1>5, <1>7, <1>9, <1>10, <1>12, <3>1, <3>2
  <2> QED BY <2>1, <2>2
<1>15. HeardInv'
  BY <1>1, <1>3, <1>4, <1>5, <1>14 DEF HeardInv
<1>16. RowInv'
  <2> SUFFICES ASSUME NEW i \in DOMAIN tests, tests'[i].status = "running"
               PROVE  Orphaned(i)' \/ AtTest(next, i) \/ Reported(next, i, 1)
    BY <1>1, <1>4, <1>12 DEF RowInv
  <2>1. Orphaned(i) => Orphaned(i)'
    BY <1>1, <1>4 DEF Orphaned
  <2>2. CASE tests'[i] = tests[i] /\ ~(m.what \in {"started", "finished"} /\ m.test = i)
    <3>1. Orphaned(i) \/ AtTest(run, i) \/ Reported(run, i, 1)
      BY <2>2 DEF SessionInv, RowInv, run
    <3> QED BY <1>5, <1>9, <2>1, <2>2, <3>1
  <2>3. CASE m.what = "started" /\ m.test = i
    BY <1>5, <1>9, <1>10, <2>3
  <2>4. CASE m.what = "finished" /\ m.test = i /\ tests'[i].status = m.status
    BY <1>7, <2>4, SessionAssumption
  <2> QED BY <1>12, <2>2, <2>3, <2>4
<1>17. DoneInv'
  <2> SUFFICES ASSUME phase' = "done", NEW i \in DOMAIN tests
               PROVE  tests'[i].status \in Verdicts
    BY <1>12 DEF DoneInv
  <2>1. CASE m.what = "done"
    <3>1. tests'[i] = tests[i]
      BY <1>12, <2>1
    <3>2. run.which = [j \in DOMAIN tests |-> j]
      BY <1>3, <1>11, <2>1 DEF Covers
    <3>3. i < run.at
      BY <1>6, <1>11, <2>1, <3>2
    <3>4. ~Reported(run, i, 1)
      BY <1>11, <2>1 DEF Reported, m
    <3> QED BY <1>3, <1>11, <2>1, <3>1, <3>3, <3>4 DEF Covers
  <2>2. CASE m.what = "finished" /\ phase' = phase
    <3>1. tests[i].status \in Verdicts
      BY <2>2 DEF SessionInv, DoneInv
    <3> QED BY <1>7, <1>12, <2>2, <3>1
  <2> QED BY <1>12, <2>1, <2>2
<1>18. ResultsLand'
  <2> SUFFICES ASSUME NEW i \in DOMAIN tests, NEW k \in DOMAIN tests'[i].result
               PROVE  /\ tests'[i].result[k].generation = generation
                      /\ tests'[i].result[k].test = i
    BY <1>1, <1>12 DEF ResultsLand
  <2>1. CASE tests'[i].result = tests[i].result
    BY <2>1 DEF SessionInv, ResultsLand
  <2>2. CASE m.what = "finished" /\ m.test = i /\ tests'[i].result = <<m>>
    <3>1. k = 1 /\ tests'[i].result[k] = m
      BY <2>2
    <3> QED BY <1>7, <2>2, <3>1
  <2> QED BY <1>12, <2>1, <2>2
<1> QED BY <1>13, <1>15, <1>16, <1>17, <1>18 DEF SessionInv

-----------------------------------------------------------------------------
(* Runs and collections that take the place of those before.               *)

\* The runs there were stay what they were runs of.
LEMMA OldRuns ==
  ASSUME SessionInv
  PROVE  /\ Len(runs) \in Nat /\ DOMAIN runs = 1 .. Len(runs)
         /\ Sequence(Unheard) /\ Len(Unheard) = Len(runs) /\ DOMAIN Unheard = DOMAIN runs
         /\ \A r \in DOMAIN runs :
              /\ IsRun(Unheard[r]) /\ Unheard[r].stage = "unheard"
              /\ Unheard[r].generation = runs[r].generation
              /\ Unheard[r].which = runs[r].which
<1>1. Len(runs) \in Nat /\ DOMAIN runs = 1 .. Len(runs)
  BY DEF SessionInv, ShapeInv, Sequence
<1>2. DOMAIN Unheard = DOMAIN runs /\ Unheard = [r \in 1 .. Len(runs) |-> Unheard[r]]
  BY <1>1 DEF Unheard
<1>3. ASSUME NEW r \in DOMAIN runs
      PROVE  /\ IsRun(Unheard[r]) /\ Unheard[r].stage = "unheard"
             /\ Unheard[r].generation = runs[r].generation
             /\ Unheard[r].which = runs[r].which
  <2>1. IsRun(runs[r])
    BY DEF SessionInv, ShapeInv
  <2>2. /\ DOMAIN Unheard[r] = DOMAIN runs[r]
        /\ Unheard[r].stage = "unheard" /\ Unheard[r].channel = <<>> /\ Unheard[r].at = 1
        /\ Unheard[r].generation = runs[r].generation
        /\ Unheard[r].which = runs[r].which
    BY <2>1 DEF Unheard, IsRun
  <2>3. <<>> \in Seq(Message(runs[r].generation, runs[r].which))
    OBVIOUS
  <2> QED BY <2>1, <2>2, <2>3 DEF IsRun
<1>4. Sequence(Unheard) /\ Len(Unheard) = Len(runs)
  BY <1>1, <1>2, IsSequence
<1> QED BY <1>1, <1>2, <1>3, <1>4

\* The run listened to from now on is a new one.
LEMMA NewRun ==
  ASSUME SessionInv, NEW run, IsRun(run), Listen(run)
  PROVE  /\ rx' # 0 /\ rx' \notin DOMAIN runs /\ DOMAIN runs' = DOMAIN runs \cup {rx'}
         /\ Sequence(runs')
         /\ runs'[rx'] = run
         /\ \A r \in DOMAIN runs :
              /\ IsRun(runs'[r]) /\ runs'[r].stage = "unheard"
              /\ runs'[r].generation = runs[r].generation
              /\ runs'[r].which = runs[r].which
<1> DEFINE S == {Unheard[i] : i \in DOMAIN Unheard} \cup {run}
           n == Len(runs)
<1>1. n \in Nat /\ DOMAIN runs = 1 .. n /\ DOMAIN Unheard = 1 .. n /\ Len(Unheard) = n
  BY OldRuns
<1>2. Unheard \in Seq(S) /\ run \in S
  <2>1. Unheard \in Seq({Unheard[i] : i \in DOMAIN Unheard})
    BY OldRuns DEF Sequence
  <2> QED BY <1>1, <2>1
<1>3. runs' = Append(Unheard, run) /\ rx' = n + 1
  BY DEF Listen
<1> HIDE DEF S
<1>4. /\ runs' \in Seq(S) /\ Len(runs') = n + 1
      /\ \A r \in 1 .. n : runs'[r] = Unheard[r]
      /\ runs'[n + 1] = run
  BY <1>1, <1>2, <1>3
<1>5. DOMAIN runs' = 1 .. n + 1 /\ runs' = [r \in 1 .. n + 1 |-> runs'[r]]
  BY <1>1, <1>4
<1>6. Sequence(runs')
  BY <1>1, <1>5, IsSequence
<1>7. n + 1 # 0 /\ n + 1 \notin 1 .. n /\ 1 .. n + 1 = (1 .. n) \cup {n + 1}
  BY <1>1
<1>8. \A r \in DOMAIN runs :
        /\ IsRun(runs'[r]) /\ runs'[r].stage = "unheard"
        /\ runs'[r].generation = runs[r].generation
        /\ runs'[r].which = runs[r].which
  BY <1>1, <1>4, OldRuns
<1> QED BY <1>1, <1>3, <1>4, <1>5, <1>6, <1>7, <1>8

\* The rows of a collection.
LEMMA Loaded ==
  ASSUME NEW collection \in Collections \cup {<<>>}
  PROVE  /\ Len(FlattenSeq(collection)) \in Nat
         /\ DOMAIN FlattenSeq(collection) = 1 .. Len(FlattenSeq(collection))
<1> DEFINE T == Requests(collection)
<1>1. collection \in Seq(Seq(T))
  <2>1. CASE collection \in Collections
    BY <2>1, SessionAssumption
  <2>2. CASE collection = <<>>
    BY <2>2
  <2> QED BY <2>1, <2>2
<1> HIDE DEF T
<1>2. FlattenSeq(collection) \in Seq(T)
  BY <1>1, FlattenType
<1> QED BY <1>2

LEMMA ApplyStep ==
  ASSUME SessionInv, NEW collection \in Collections, NEW p \in {"idle", "running"},
         Apply(collection, p)
  PROVE  /\ generation' \in Nat
         /\ \E n \in Nat : DOMAIN tests' = 1 .. n
         /\ DOMAIN tests' = DOMAIN cases'
         /\ (\A i \in DOMAIN tests : DOMAIN tests[i] = {"status", "result"})'
         /\ (\A i \in DOMAIN tests : tests[i].status # "running")'
         /\ DoneInv' /\ ResultsLand'
<1>1. generation \in Nat
  BY DEF SessionInv, ShapeInv
<1>2. generation' = generation + 1 /\ phase' = p
      /\ cases' = FlattenSeq(collection) /\ tests' = [i \in DOMAIN cases' |-> Pending]
  BY DEF Apply
<1>3. \E n \in Nat : DOMAIN cases' = 1 .. n
  BY <1>2, Loaded
<1>4. DOMAIN tests' = DOMAIN cases' /\ \A i \in DOMAIN tests' : tests'[i] = Pending
  BY <1>2
<1>5. /\ DOMAIN Pending = {"status", "result"} /\ Pending.status # "running"
      /\ Pending.result = <<>> /\ DOMAIN <<>> = {}
  BY DEF Pending
<1>6. ResultsLand'
  BY <1>4, <1>5 DEF ResultsLand
<1>7. DoneInv'
  BY <1>2 DEF DoneInv
<1> QED BY <1>1, <1>2, <1>3, <1>4, <1>5, <1>6, <1>7

LEMMA DeafStep ==
  ASSUME SessionInv, NEW collection \in Collections, Apply(collection, "idle"), Deaf
  PROVE  SessionInv'
<1>1. /\ generation' \in Nat
      /\ (\A i \in DOMAIN tests : DOMAIN tests[i] = {"status", "result"})'
      /\ (\A i \in DOMAIN tests : tests[i].status # "running")'
      /\ DoneInv' /\ ResultsLand'
  BY ApplyStep
<1>2. runs' = Unheard /\ rx' = 0
  BY DEF Deaf
<1>3. ShapeInv'
  BY <1>1, <1>2, OldRuns DEF ShapeInv
<1>4. HeardInv' /\ RowInv'
  BY <1>1, <1>2 DEF HeardInv, RowInv
<1> QED BY <1>1, <1>3, <1>4 DEF SessionInv

\* A run that has been spawned: it has sent nothing yet.
LEMMA Spawned ==
  ASSUME generation' \in Nat, NEW which, Sequence(which), NEW single,
         NEW run, run = Spawn(which, single)
  PROVE  /\ IsRun(run) /\ Orderly(run)
         /\ run.generation = generation' /\ run.which = which /\ run.single = single
         /\ run.at = 1 /\ run.stage = "building"
<1>1. /\ DOMAIN run = {"generation", "which", "single", "at", "stage", "channel"}
      /\ run.generation = generation' /\ run.which = which /\ run.single = single
      /\ run.at = 1 /\ run.stage = "building" /\ run.channel = <<>>
  BY DEF Spawn
<1>2. run.channel \in Seq(Message(run.generation, run.which))
  BY <1>1
<1>3. Len(which) \in Nat
  BY DEF Sequence
<1>4. 1 \in 1 .. Len(which) + 1
  BY <1>3
<1>5. DOMAIN run.channel = {}
  BY <1>1
<1>6. IsRun(run)
  BY <1>1, <1>2 DEF IsRun
<1>7. Orderly(run)
  BY <1>1, <1>4, <1>5 DEF Orderly
<1> QED BY <1>1, <1>6, <1>7

LEMMA RerunStep ==
  ASSUME SessionInv, NEW collection \in Collections, Apply(collection, "running"),
         Listen(Spawn([i \in DOMAIN cases' |-> i], FALSE))
  PROVE  SessionInv'
<1> DEFINE which == [i \in DOMAIN cases' |-> i]
           run == Spawn(which, FALSE)
<1>1. /\ generation' \in Nat
      /\ \E n \in Nat : DOMAIN tests' = 1 .. n
      /\ DOMAIN tests' = DOMAIN cases'
      /\ (\A i \in DOMAIN tests : DOMAIN tests[i] = {"status", "result"})'
      /\ (\A i \in DOMAIN tests : tests[i].status # "running")'
      /\ DoneInv' /\ ResultsLand'
  BY ApplyStep
<1>2. Sequence(which)
  <2>1. PICK n \in Nat : DOMAIN cases' = 1 .. n
    BY <1>1
  <2> QED BY <2>1, IsSequence
<1>3. /\ IsRun(run) /\ Orderly(run)
      /\ run.generation = generation' /\ run.which = which /\ run.single = FALSE
      /\ run.at = 1 /\ run.stage = "building"
  <2> DEFINE single == FALSE
  <2>1. run = Spawn(which, single)
    OBVIOUS
  <2> HIDE DEF run, which, single
  <2>2. /\ IsRun(run) /\ Orderly(run)
        /\ run.generation = generation' /\ run.which = which /\ run.single = single
        /\ run.at = 1 /\ run.stage = "building"
    BY <1>1, <1>2, <2>1, Spawned
  <2> QED BY <2>2 DEF single
<1> HIDE DEF run
<1>4. /\ rx' # 0 /\ rx' \notin DOMAIN runs /\ DOMAIN runs' = DOMAIN runs \cup {rx'}
      /\ Sequence(runs') /\ runs'[rx'] = run
      /\ \A r \in DOMAIN runs : IsRun(runs'[r]) /\ runs'[r].stage = "unheard"
  <2>1. Listen(run)
    BY DEF run
  <2> QED BY <1>3, <2>1, NewRun
<1>5. ShapeInv'
  BY <1>1, <1>3, <1>4 DEF ShapeInv
<1>6. Covers(runs[rx])'
  <2>1. runs'[rx'].which = [i \in DOMAIN tests' |-> i] /\ runs'[rx'].at = 1
    BY <1>1, <1>3, <1>4
  <2>2. \A i \in DOMAIN tests' : ~(i < 1)
    BY <1>1
  <2> QED BY <2>1, <2>2 DEF Covers
<1>7. HeardInv'
  BY <1>3, <1>4, <1>6 DEF HeardInv
<1>8. RowInv'
  BY <1>1 DEF RowInv
<1> QED BY <1>1, <1>5, <1>7, <1>8 DEF SessionInv

LEMMA SingleStep ==
  ASSUME SessionInv, NEW ti, tests' = [tests EXCEPT ![ti] = Pending], phase' = "running",
         UNCHANGED generation, Listen(Spawn(<<ti>>, TRUE))
  PROVE  SessionInv'
<1> DEFINE which == <<ti>>
           run == Spawn(which, TRUE)
<1>1. Sequence(which)
  BY DEF Sequence
<1>2. generation \in Nat /\ generation' = generation
  BY DEF SessionInv, ShapeInv
<1>3. /\ IsRun(run) /\ Orderly(run)
      /\ run.generation = generation' /\ run.which = which /\ run.single = TRUE
      /\ run.at = 1 /\ run.stage = "building"
  <2> DEFINE single == TRUE
  <2>1. run = Spawn(which, single)
    OBVIOUS
  <2> HIDE DEF run, which, single
  <2>2. /\ IsRun(run) /\ Orderly(run)
        /\ run.generation = generation' /\ run.which = which /\ run.single = single
        /\ run.at = 1 /\ run.stage = "building"
    BY <1>1, <1>2, <2>1, Spawned
  <2> QED BY <2>2 DEF single
<1> HIDE DEF run
<1>4. /\ rx' # 0 /\ rx' \notin DOMAIN runs /\ DOMAIN runs' = DOMAIN runs \cup {rx'}
      /\ Sequence(runs') /\ runs'[rx'] = run
      /\ \A r \in DOMAIN runs :
           /\ IsRun(runs'[r]) /\ runs'[r].stage = "unheard"
           /\ runs'[r].generation = runs[r].generation
           /\ runs'[r].which = runs[r].which
  <2>1. Listen(run)
    BY DEF run
  <2> QED BY <1>3, <2>1, NewRun
<1>5. /\ DOMAIN tests' = DOMAIN tests
      /\ \A i \in DOMAIN tests : tests'[i] = IF i = ti THEN Pending ELSE tests[i]
  OBVIOUS
<1>6. /\ DOMAIN Pending = {"status", "result"} /\ Pending.status # "running"
      /\ Pending.result = <<>> /\ DOMAIN <<>> = {}
  BY DEF Pending
<1>7. ShapeInv'
  BY <1>2, <1>3, <1>4, <1>5, <1>6 DEF SessionInv, ShapeInv
<1>8. HeardInv'
  BY <1>3, <1>4 DEF HeardInv, Covers
<1>9. DoneInv'
  BY DEF DoneInv
<1>10. ResultsLand'
  BY <1>2, <1>5, <1>6 DEF SessionInv, ResultsLand
<1>11. RowInv'
  <2> SUFFICES ASSUME NEW i \in DOMAIN tests, tests'[i].status = "running"
               PROVE  Orphaned(i)'
    BY <1>5 DEF RowInv
  <2>1. tests[i].status = "running"
    BY <1>5, <1>6
  <2>2. ASSUME NEW r \in DOMAIN runs, runs[r].generation = generation,
               NEW k \in DOMAIN runs[r].which, runs[r].which[k] = i
        PROVE  Orphaned(i)'
    BY <1>2, <1>4, <2>2 DEF Orphaned
  <2>3. CASE Orphaned(i)
    BY <2>2, <2>3 DEF Orphaned
  <2>4. CASE rx # 0 /\ (AtTest(runs[rx], i) \/ Reported(runs[rx], i, 1))
    <3>1. /\ rx \in DOMAIN runs /\ IsRun(runs[rx]) /\ Orderly(runs[rx])
          /\ runs[rx].generation = generation
      BY <2>4 DEF SessionInv, ShapeInv, HeardInv
    <3>2. CASE AtTest(runs[rx], i)
      <4>1. runs[rx].at \in DOMAIN runs[rx].which
        BY <3>1, <3>2 DEF AtTest, Orderly, IsRun, Sequence
      <4> QED BY <2>2, <3>1, <3>2, <4>1 DEF AtTest
    <3>3. CASE Reported(runs[rx], i, 1)
      <4>1. PICK l \in 1 .. Len(runs[rx].channel) :
              runs[rx].channel[l].what = "finished" /\ runs[rx].channel[l].test = i
        BY <3>3 DEF Reported
      <4>2. runs[rx].channel[l] \in Message(runs[rx].generation, runs[rx].which)
        BY <3>1, <4>1 DEF IsRun
      <4>3. i \in {runs[rx].which[k] : k \in DOMAIN runs[rx].which}
        BY <4>1, <4>2 DEF Message, LastWords
      <4> QED BY <2>2, <3>1, <4>3
    <3> QED BY <2>4, <3>2, <3>3
  <2> QED BY <2>1, <2>3, <2>4 DEF SessionInv, RowInv
<1> QED BY <1>7, <1>8, <1>9, <1>10, <1>11 DEF SessionInv

-----------------------------------------------------------------------------
(* Results and statuses.                                                   *)

LEMMA InitHolds == Init => SessionInv
<1> SUFFICES ASSUME Init PROVE SessionInv
  OBVIOUS
<1>1. runs = <<>> /\ rx = 0 /\ generation = 0 /\ tests = [i \in DOMAIN cases |-> Pending]
      /\ phase \in {"empty", "idle"}
  BY DEF Init
<1>2. /\ DOMAIN Pending = {"status", "result"} /\ Pending.status # "running"
      /\ Pending.result = <<>> /\ DOMAIN <<>> = {}
  BY DEF Pending
<1>3. ShapeInv
  BY <1>1, <1>2 DEF ShapeInv, Sequence
<1>4. HeardInv /\ RowInv
  BY <1>1, <1>2 DEF HeardInv, RowInv
<1>5. DoneInv
  BY <1>1 DEF DoneInv
<1>6. ResultsLand
  BY <1>1, <1>2 DEF ResultsLand
<1> QED BY <1>3, <1>4, <1>5, <1>6 DEF SessionInv

\* rerun, from the list of tests or from the parameters.
LEMMA RerunKeeps ==
  ASSUME SessionInv, Rerun
  PROVE  SessionInv'
<1>1. CASE /\ ShowError
           /\ UNCHANGED <<generation, folders, tests, cases, tree, cursor, runs, rx>>
  BY <1>1, SameRows DEF ShowError
<1>2. ASSUME NEW collection \in Collections, Apply(collection, "running"),
             Listen(Spawn([i \in DOMAIN cases' |-> i], FALSE))
      PROVE  SessionInv'
  BY <1>2, RerunStep
<1> QED BY <1>1, <1>2 DEF Rerun

LEMMA MainKeys ==
  ASSUME SessionInv, MainKey
  PROVE  SessionInv'
<1>1. CASE Select(cursor - 1) \/ Select(cursor + 1) \/ ToggleFolder
  BY <1>1, SameRows DEF Select, ToggleFolder
<1>2. CASE RunSelected
  <2>1. PICK ti : /\ tests' = [tests EXCEPT ![ti] = Pending]
                  /\ phase' = "running"
                  /\ UNCHANGED generation
                  /\ Listen(Spawn(<<ti>>, TRUE))
    BY <1>2, Zenon DEF RunSelected
  <2> QED BY <2>1, SingleStep
<1>3. CASE RerunKey
  BY <1>3, RerunKeeps DEF RerunKey
<1>4. CASE OpenRequestEditor \/ OpenParams \/ OpenBrowser \/ Quit
  BY <1>4, SameRows DEF OpenRequestEditor, OpenParams, OpenBrowser, Quit
<1> QED BY <1>1, <1>2, <1>3, <1>4 DEF MainKey

LEMMA OverlayKeys ==
  ASSUME SessionInv, OverlayKey
  PROVE  SessionInv'
<1>1. CASE BrowserMoves(browser.cursor - 1) \/ BrowserMoves(browser.cursor + 1)
           \/ ChangeDirectory
  BY <1>1, SameRows DEF BrowserMoves, ChangeDirectory
<1>2. CASE OpenCollection
  <2>1. CASE ShowError /\ UNCHANGED <<generation, tests, runs, rx>>
    BY <2>1, SameRows DEF ShowError
  <2>2. ASSUME NEW collection \in Collections, Apply(collection, "idle"), Deaf
        PROVE  SessionInv'
    BY <2>2, DeafStep
  <2>3. \/ ShowError /\ UNCHANGED <<generation, tests, runs, rx>>
        \/ \E collection \in Collections : Apply(collection, "idle") /\ Deaf
    BY <1>2, Zenon DEF OpenCollection
  <2> QED BY <2>1, <2>2, <2>3
<1>3. CASE MoveInRequest \/ EditRow \/ EditText
  <2>1. UNCHANGED <<app, runs, rx>>
    BY <1>3 DEF MoveInRequest, EditRow, EditText, Edit
  <2> QED BY <2>1, SameRows
<1>4. CASE AddHeaderOverflows \/ SaveRequest \/ Escape
  BY <1>4, SameRows DEF AddHeaderOverflows, SaveRequest, Escape
<1>5. CASE MoveInParams \/ ParamKey
  <2>1. UNCHANGED <<app, runs, rx>>
    BY <1>5 DEF MoveInParams, ParamKey, EditParams
  <2> QED BY <2>1, SameRows
<1>6. CASE RerunWithParams
  BY <1>6, RerunKeeps DEF RerunWithParams
<1> QED BY <1>1, <1>2, <1>3, <1>4, <1>5, <1>6 DEF OverlayKey

\* Every key, every message and every step of a thread keeps the rows and the
\* messages under way in order.
THEOREM Inductive == Spec => []SessionInv
<1>1. ASSUME SessionInv, [Next]_vars PROVE SessionInv'
  <2>1. CASE Receive
    BY <1>1, <2>1, ReceiveStep
  <2>2. ASSUME NEW r \in DOMAIN runs, Thread(r) PROVE SessionInv'
    BY <1>1, <2>2, ThreadStep
  <2>3. CASE MainKey
    BY <1>1, <2>3, MainKeys
  <2>4. CASE OverlayKey
    BY <1>1, <2>4, OverlayKeys
  <2>5. CASE UNCHANGED vars
    BY <1>1, <2>5, SameRows DEF vars
  <2> QED BY <1>1, <2>1, <2>2, <2>3, <2>4, <2>5 DEF Next
<1> QED BY <1>1, InitHolds, PTL DEF Spec

\* A result is shown in the row of the test it belongs to, of the collection
\* on show: whatever was reloaded or run instead, no message of an earlier run
\* gets through (spawn_runner, run_tui).
THEOREM ResultsAreInTheirRows == Spec => []ResultsLand
<1>1. SessionInv => ResultsLand
  BY DEF SessionInv
<1> QED BY <1>1, Inductive, PTL

\* When a run is done every test has a verdict, and a row shown as running is
\* that of the test its run is at or failed at, or its verdict is under way,
\* or another run has taken the place of the one that ran it.
THEOREM StatusesAreRight == Spec => []StatusesFit
<1>1. SessionInv => StatusesFit
  <2> SUFFICES ASSUME SessionInv, NEW i \in DOMAIN tests, tests[i].status = "running",
                      ~Orphaned(i)
               PROVE  /\ rx # 0
                      /\ \/ AtTest(runs[rx], i)
                         \/ \E k \in DOMAIN runs[rx].channel :
                              /\ runs[rx].channel[k].what = "finished"
                              /\ runs[rx].channel[k].test = i
    <3>1. SessionInv => (phase = "done" => \A i \in DOMAIN tests : tests[i].status \in Verdicts)
      BY DEF SessionInv, DoneInv
    <3> QED BY <3>1, Zenon DEF StatusesFit, AtTest
  <2>1. rx # 0 /\ (AtTest(runs[rx], i) \/ Reported(runs[rx], i, 1))
    BY DEF SessionInv, RowInv
  <2>2. ASSUME Reported(runs[rx], i, 1)
        PROVE  \E k \in DOMAIN runs[rx].channel :
                 runs[rx].channel[k].what = "finished" /\ runs[rx].channel[k].test = i
    <3>1. IsRun(runs[rx])
      BY <2>1 DEF SessionInv, ShapeInv
    <3>2. DOMAIN runs[rx].channel = 1 .. Len(runs[rx].channel)
      BY <3>1 DEF IsRun
    <3> QED BY <2>2, <3>2 DEF Reported
  <2> QED BY <2>1, <2>2
<1> QED BY <1>1, Inductive, PTL

-----------------------------------------------------------------------------
(* Scanning a body for the fields of a form.                               *)

\* f goes through the lines, from some state of the scan on.
Scanning(f, scan, lines) ==
  /\ f[0] = scan
  /\ \A i \in 1 .. Len(lines) : f[i] = ScanLine(f[i - 1], lines[i])
  /\ Scanned(scan, lines) = f[Len(lines)]

LEMMA ScanLaw ==
  ASSUME NEW scan, NEW S, NEW lines \in Seq(S)
  PROVE  \E f : Scanning(f, scan, lines)
<1> DEFINE Law(n, f) == f = [i \in 0 .. n |-> IF i = 0 THEN scan
                                              ELSE ScanLine(f[i - 1], lines[i])]
           good == {n \in Nat : \E f : Law(n, f)}
<1>1. 0 \in good
  <2>1. Law(0, [i \in 0 .. 0 |-> scan])
    OBVIOUS
  <2> QED BY <2>1
<1>2. Len(lines) \in Nat
  OBVIOUS
<1>3. ASSUME NEW n \in 1 .. Len(lines), n - 1 \in good PROVE n \in good
  <2>1. PICK f : Law(n - 1, f)
    BY <1>3
  <2> DEFINE g == [i \in 0 .. n |-> IF i = n THEN ScanLine(f[n - 1], lines[n]) ELSE f[i]]
  <2>2. Law(n, g)
    <3>1. ASSUME NEW i \in 0 .. n
          PROVE  g[i] = IF i = 0 THEN scan ELSE ScanLine(g[i - 1], lines[i])
      <4>1. CASE i = n
        <5>1. n # 0 /\ n - 1 \in 0 .. n /\ n - 1 # n
          BY <1>2
        <5>2. g[n - 1] = f[n - 1]
          BY <5>1
        <5> QED BY <4>1, <5>1, <5>2
      <4>2. CASE i # n
        <5>1. i \in 0 .. n - 1 /\ (i = 0 \/ (i - 1 \in 0 .. n /\ i - 1 # n))
          BY <1>2, <4>2
        <5>2. f[i] = IF i = 0 THEN scan ELSE ScanLine(f[i - 1], lines[i])
          BY <2>1, <5>1
        <5>3. g[i] = f[i] /\ (i = 0 \/ g[i - 1] = f[i - 1])
          BY <4>2, <5>1
        <5> HIDE DEF g
        <5> QED BY <5>2, <5>3
      <4> QED BY <4>1, <4>2
    <3>2. g = [i \in 0 .. n |-> g[i]]
      BY DEF g
    <3> HIDE DEF g
    <3> QED BY <3>1, <3>2
  <2>3. n \in Nat
    BY <1>2
  <2> HIDE DEF g, Law
  <2> QED BY <2>2, <2>3
<1>4. Len(lines) \in good
  <2> HIDE DEF good
  <2>1. \A n \in 0 .. Len(lines) : n \in good
    BY <1>1, <1>2, <1>3, Upward
  <2> QED BY <1>2, <2>1
<1> DEFINE after == CHOOSE f : Law(Len(lines), f)
<1>5. Law(Len(lines), after)
  BY <1>4, Zenon
<1>6. Scanned(scan, lines) = after[Len(lines)]
  BY Zenon DEF Scanned
<1> HIDE DEF after
<1>7. /\ 0 \in 0 .. Len(lines)
      /\ \A i \in 1 .. Len(lines) : i \in 0 .. Len(lines) /\ i # 0
  BY <1>2
<1>8. \A i \in 0 .. Len(lines) :
        after[i] = IF i = 0 THEN scan ELSE ScanLine(after[i - 1], lines[i])
  BY <1>5
<1> QED BY <1>6, <1>7, <1>8 DEF Scanning

\* No line, one line, and some lines after others.
LEMMA ScanNothing ==
  ASSUME NEW scan
  PROVE  Scanned(scan, <<>>) = scan
<1>1. <<>> \in Seq({}) /\ Len(<<>>) = 0
  OBVIOUS
<1>2. PICK f : Scanning(f, scan, <<>>)
  BY <1>1, ScanLaw
<1> QED BY <1>1, <1>2 DEF Scanning

LEMMA ScanOne ==
  ASSUME NEW scan, NEW l
  PROVE  Scanned(scan, <<l>>) = ScanLine(scan, l)
<1>1. <<l>> \in Seq({l}) /\ Len(<<l>>) = 1 /\ <<l>>[1] = l /\ 1 \in 1 .. 1 /\ 1 - 1 = 0
  OBVIOUS
<1>2. PICK f : Scanning(f, scan, <<l>>)
  BY <1>1, ScanLaw
<1> QED BY <1>1, <1>2 DEF Scanning

LEMMA ScanMore ==
  ASSUME NEW scan, NEW S, NEW a \in Seq(S), NEW b \in Seq(S)
  PROVE  Scanned(scan, a \o b) = Scanned(Scanned(scan, a), b)
<1> DEFINE c == a \o b
<1>1. /\ c \in Seq(S) /\ Len(a) \in Nat /\ Len(b) \in Nat /\ Len(c) = Len(a) + Len(b)
      /\ \A i \in 1 .. Len(a) : c[i] = a[i] /\ i \in 1 .. Len(c)
      /\ \A i \in 1 .. Len(b) : c[Len(a) + i] = b[i] /\ Len(a) + i \in 1 .. Len(c)
  OBVIOUS
<1> HIDE DEF c
<1>2. PICK f : Scanning(f, scan, c)
  BY <1>1, ScanLaw
<1>3. PICK g : Scanning(g, scan, a)
  BY ScanLaw
<1>4. PICK h : Scanning(h, Scanned(scan, a), b)
  BY ScanLaw
<1> DEFINE low == {i \in 0 .. Len(a) : f[i] = g[i]}
           high == {i \in 0 .. Len(b) : f[Len(a) + i] = h[i]}
<1>5. \A i \in 0 .. Len(a) : i \in low
  <2>1. 0 \in low
    BY <1>1, <1>2, <1>3 DEF Scanning
  <2>2. ASSUME NEW i \in 1 .. Len(a), i - 1 \in low PROVE i \in low
    <3>1. f[i] = ScanLine(f[i - 1], a[i]) /\ g[i] = ScanLine(g[i - 1], a[i])
      BY <1>1, <1>2, <1>3 DEF Scanning
    <3> QED BY <2>2, <3>1
  <2> HIDE DEF low
  <2> QED BY <1>1, <2>1, <2>2, Upward
<1>6. f[Len(a)] = Scanned(scan, a)
  BY <1>1, <1>3, <1>5 DEF Scanning
<1>7. \A i \in 0 .. Len(b) : i \in high
  <2>1. 0 \in high
    BY <1>1, <1>4, <1>6 DEF Scanning
  <2>2. ASSUME NEW i \in 1 .. Len(b), i - 1 \in high PROVE i \in high
    <3>1. Len(a) + i - 1 = Len(a) + (i - 1)
      BY <1>1
    <3>2. /\ f[Len(a) + i] = ScanLine(f[Len(a) + i - 1], b[i])
          /\ h[i] = ScanLine(h[i - 1], b[i])
      BY <1>1, <1>2, <1>4 DEF Scanning
    <3> QED BY <2>2, <3>1, <3>2
  <2> HIDE DEF high
  <2> QED BY <1>1, <2>1, <2>2, Upward
<1>8. f[Len(a) + Len(b)] = h[Len(b)]
  BY <1>1, <1>7
<1> QED BY <1>1, <1>2, <1>4, <1>8 DEF Scanning, c

-----------------------------------------------------------------------------
(* Forms.                                                                  *)

\* A value has a line, and no blank ones at its end unless it has no other.
IsValue(v) ==
  /\ Sequence(v) /\ v # <<>>
  /\ v = <<Blank>> \/ v[Len(v)] # Blank

IsField(x) ==
  x = <<x[1], x[2]>> /\ x[1] \in DOMAIN Disposition /\ IsValue(x[2])

IsForm(form) == Sequence(form) /\ \A i \in DOMAIN form : IsField(form[i])

\* A nonempty set of naturals with an upper bound has a greatest element.
LEMMA LargestNatural ==
  ASSUME NEW b \in Nat, NEW S \in SUBSET (0 .. b), NEW e \in S
  PROVE  \E m \in S : \A k \in S : k <= m
<1> DEFINE T == {b - k : k \in S}
<1>1. T \in SUBSET Nat /\ T # {}
  OBVIOUS
<1>2. PICK t \in T : \A u \in T : t <= u
  <2> HIDE DEF T
  <2> QED BY <1>1, LeastNatural
<1>3. PICK m \in S : t = b - m
  OBVIOUS
<1>4. ASSUME NEW k \in S PROVE k <= m
  <2>1. b - k \in T
    OBVIOUS
  <2>2. b - m <= b - k
    BY <1>2, <1>3, <2>1
  <2> QED BY <2>2
<1> QED BY <1>4

\* What is trimmed is a value, and a value is trimmed.
LEMMA TrimmedIsValue ==
  ASSUME NEW lines, Sequence(lines)
  PROVE  /\ IsValue(Trimmed(lines))
         /\ IsValue(lines) => Trimmed(lines) = lines
<1> DEFINE last == {i \in DOMAIN lines : lines[i] # Blank}
           n == CHOOSE i \in last : \A j \in last : j <= i
           S == {lines[i] : i \in DOMAIN lines}
<1>1. /\ lines \in Seq(S)
      /\ DOMAIN lines = 1 .. Len(lines) /\ Len(lines) \in Nat
  BY DEF Sequence
<1>2. Trimmed(lines) = IF last = {} THEN <<Blank>> ELSE SubSeq(lines, 1, n)
  BY DEF Trimmed
<1>3. CASE last = {}
  <2>1. Trimmed(lines) = <<Blank>>
    BY <1>2, <1>3
  <2>2. Sequence(<<Blank>>) /\ <<Blank>> # <<>>
    BY DEF Sequence
  <2>3. IsValue(lines) => lines = <<Blank>>
    <3>1. lines # <<>> => Len(lines) \in DOMAIN lines
      BY <1>1
    <3> QED BY <1>3, <3>1 DEF IsValue
  <2> QED BY <2>1, <2>2, <2>3 DEF IsValue
<1>4. CASE last # {}
  <2>1. n \in last /\ \A j \in last : j <= n
    <3>1. \E i \in last : \A j \in last : j <= i
      <4>1. last \in SUBSET (0 .. Len(lines))
        BY <1>1
      <4> HIDE DEF last
      <4> QED BY <1>1, <1>4, <4>1, LargestNatural
    <3> HIDE DEF last
    <3> QED BY <3>1
  <2> HIDE DEF n
  <2>2. n \in 1 .. Len(lines) /\ lines[n] # Blank
    BY <1>1, <2>1
  <2> DEFINE v == SubSeq(lines, 1, n)
  <2>3. v \in Seq(S) /\ Len(v) = n /\ \A i \in 1 .. n : v[i] = lines[i]
    BY <1>1, <2>2
  <2>4. Trimmed(lines) = v
    BY <1>2, <1>4
  <2>5. IsValue(lines) => v = lines
    <3> SUFFICES ASSUME IsValue(lines) PROVE v = lines
      OBVIOUS
    <3>1. Len(lines) \in last
      <4>1. lines # <<>> /\ (lines = <<Blank>> => n = 1)
        BY <2>2 DEF IsValue
      <4>2. lines # <<Blank>>
        BY <2>2
      <4> QED BY <1>1, <4>1, <4>2 DEF IsValue
    <3>2. n = Len(lines)
      BY <1>1, <2>1, <2>2, <3>1
    <3> QED BY <1>1, <3>2
  <2>6. Sequence(v)
    <3> HIDE DEF v, S
    <3> QED BY <2>2, <2>3 DEF Sequence
  <2>7. v # <<>> /\ v[Len(v)] # Blank
    BY <2>2, <2>3
  <2> HIDE DEF v
  <2> QED BY <2>4, <2>5, <2>6, <2>7 DEF IsValue
<1> QED BY <1>3, <1>4

\* Sequences of anything, joined.
LEMMA Joined ==
  ASSUME NEW a, Sequence(a), NEW b, Sequence(b)
  PROVE  /\ Sequence(a \o b)
         /\ Len(a) \in Nat /\ DOMAIN a = 1 .. Len(a)
         /\ Len(b) \in Nat /\ DOMAIN b = 1 .. Len(b)
         /\ Len(a \o b) = Len(a) + Len(b) /\ DOMAIN (a \o b) = 1 .. Len(a) + Len(b)
         /\ \A i \in DOMAIN a : (a \o b)[i] = a[i]
         /\ \A i \in DOMAIN b : (a \o b)[Len(a) + i] = b[i]
         /\ \A i \in DOMAIN (a \o b) : i \in DOMAIN a \/ i - Len(a) \in DOMAIN b
<1> DEFINE S == {a[i] : i \in DOMAIN a} \cup {b[i] : i \in DOMAIN b}
           c == a \o b
<1>1. a \in Seq(S) /\ b \in Seq(S)
  BY DEF Sequence
<1> HIDE DEF S
<1>2. /\ Len(a) \in Nat /\ DOMAIN a = 1 .. Len(a)
      /\ Len(b) \in Nat /\ DOMAIN b = 1 .. Len(b)
      /\ c \in Seq(S) /\ Len(c) = Len(a) + Len(b) /\ DOMAIN c = 1 .. Len(a) + Len(b)
      /\ \A i \in DOMAIN a : c[i] = a[i]
      /\ \A i \in DOMAIN b : c[Len(a) + i] = b[i]
      /\ \A i \in DOMAIN c : i \in DOMAIN a \/ i - Len(a) \in DOMAIN b
  BY <1>1
<1> HIDE DEF c
<1>3. c = [i \in 1 .. Len(a) + Len(b) |-> c[i]]
  BY <1>2
<1>4. Sequence(c)
  BY <1>2, <1>3, IsSequence
<1> QED BY <1>2, <1>4 DEF c

\* Forms joined are a form.
LEMMA JoinedForms ==
  ASSUME NEW a, IsForm(a), NEW b, IsForm(b)
  PROVE  IsForm(a \o b)
<1>1. Sequence(a) /\ Sequence(b)
  BY DEF IsForm
<1>2. /\ Sequence(a \o b)
      /\ Len(a) \in Nat /\ DOMAIN a = 1 .. Len(a)
      /\ Len(b) \in Nat /\ DOMAIN b = 1 .. Len(b)
      /\ Len(a \o b) = Len(a) + Len(b) /\ DOMAIN (a \o b) = 1 .. Len(a) + Len(b)
      /\ \A i \in DOMAIN a : (a \o b)[i] = a[i]
      /\ \A i \in DOMAIN b : (a \o b)[Len(a) + i] = b[i]
      /\ \A i \in DOMAIN (a \o b) : i \in DOMAIN a \/ i - Len(a) \in DOMAIN b
  BY <1>1, Joined
<1> DEFINE c == a \o b
<1>0. /\ Sequence(c)
      /\ \A i \in DOMAIN a : c[i] = a[i]
      /\ \A i \in DOMAIN b : c[Len(a) + i] = b[i]
      /\ \A i \in DOMAIN c : i \in DOMAIN a \/ i - Len(a) \in DOMAIN b
      /\ Len(a) \in Nat /\ DOMAIN c = 1 .. Len(a) + Len(b) /\ Len(b) \in Nat
  BY <1>2, Zenon
<1> HIDE DEF c
<1>3. ASSUME NEW i \in DOMAIN c PROVE IsField(c[i])
  <2>1. CASE i \in DOMAIN a
    BY <1>0, <2>1 DEF IsForm
  <2>2. CASE i - Len(a) \in DOMAIN b
    <3>1. c[i] = b[i - Len(a)]
      <4>1. Len(a) + (i - Len(a)) = i
        BY <1>0
      <4> QED BY <1>0, <2>2, <4>1
    <3> QED BY <2>2, <3>1 DEF IsForm
  <2> QED BY <1>0, <2>1, <2>2
<1> QED BY <1>0, <1>3 DEF IsForm, c

\* What the scan has found so far.
IsScan(scan) ==
  /\ DOMAIN scan = {"fields", "name", "value", "at"}
  /\ IsForm(scan.fields)
  /\ scan.name = <<>> \/ \E n \in DOMAIN Disposition : scan.name = <<n>>
  /\ Sequence(scan.value)

LEMMA EmptySequence == Sequence(<<>>) /\ IsForm(<<>>)
  BY DEF Sequence, IsForm

LEMMA OneField ==
  ASSUME NEW n \in DOMAIN Disposition, NEW v, IsValue(v)
  PROVE  IsForm(<< <<n, v>> >>)
<1>1. Sequence(<< <<n, v>> >>)
  BY DEF Sequence
<1>2. IsField(<<n, v>>)
  BY DEF IsField
<1> QED BY <1>1, <1>2 DEF IsForm

\* A part that is closed adds its field, if it has a name.
LEMMA ClosedForm ==
  ASSUME NEW scan, IsScan(scan)
  PROVE  /\ IsForm(Closed(scan))
         /\ scan.name = <<>> => Closed(scan) = scan.fields
         /\ \A n : scan.name = <<n>> =>
              Closed(scan) = scan.fields \o << <<n, Trimmed(scan.value)>> >>
<1>1. IsValue(Trimmed(scan.value))
  BY TrimmedIsValue DEF IsScan
<1> DEFINE parts == [i \in DOMAIN scan.name |-> <<scan.name[i], Trimmed(scan.value)>>]
<1>2. Closed(scan) = scan.fields \o parts
  BY DEF Closed
<1>3. CASE scan.name = <<>>
  <2>1. parts = <<>>
    BY <1>3
  <2> HIDE DEF parts
  <2>2. scan.fields \o <<>> = scan.fields
    BY DEF IsScan, IsForm, Sequence
  <2>3. IsForm(scan.fields)
    BY DEF IsScan
  <2> QED BY <1>2, <1>3, <2>1, <2>2, <2>3
<1>4. ASSUME NEW n, scan.name = <<n>>
      PROVE  parts = << <<n, Trimmed(scan.value)>> >>
  BY <1>4
<1> HIDE DEF parts
<1>5. CASE \E n \in DOMAIN Disposition : scan.name = <<n>>
  <2>1. PICK n \in DOMAIN Disposition : scan.name = <<n>>
    BY <1>5
  <2>2. IsForm(scan.fields) /\ IsForm(<< <<n, Trimmed(scan.value)>> >>)
    BY <1>1, OneField DEF IsScan
  <2>3. IsForm(Closed(scan))
    BY <1>2, <1>4, <2>1, <2>2, JoinedForms
  <2>4. scan.name # <<>>
    BY <2>1
  <2> QED BY <1>2, <1>4, <2>3, <2>4
<1> QED BY <1>3, <1>5 DEF IsScan

\* A line of a body keeps it so.
LEMMA ScanLineKeeps ==
  ASSUME NEW scan, IsScan(scan), NEW l
  PROVE  IsScan(ScanLine(scan, l))
<1> DEFINE next == ScanLine(scan, l)
<1>1. /\ DOMAIN scan = {"fields", "name", "value", "at"}
      /\ IsForm(scan.fields) /\ Sequence(scan.value) /\ IsForm(Closed(scan))
      /\ Sequence(<<>>)
      /\ scan.name = <<>> \/ \E n \in DOMAIN Disposition : scan.name = <<n>>
  BY ClosedForm, EmptySequence DEF IsScan
<1>2. Sequence(Append(scan.value, l))
  <2>1. Sequence(<<l>>)
    BY DEF Sequence
  <2>2. Sequence(scan.value \o <<l>>)
    BY <1>1, <2>1, Joined
  <2>3. Append(scan.value, l) = scan.value \o <<l>>
    BY <1>1 DEF Sequence
  <2> QED BY <2>2, <2>3
<1>3. CASE scan.at = "over"
  BY <1>3 DEF ScanLine
<1>4. CASE scan.at # "over" /\ l = End
  <2>1. next = [scan EXCEPT !.fields = Closed(scan), !.at = "over"]
    BY <1>4, EditorAssumption, Zenon DEF ScanLine
  <2>2. /\ DOMAIN next = {"fields", "name", "value", "at"} /\ next.fields = Closed(scan)
        /\ next.name = scan.name /\ next.value = scan.value
    BY <1>1, <2>1
  <2> HIDE DEF next
  <2> QED BY <1>1, <2>2 DEF IsScan, next
<1>5. CASE scan.at # "over" /\ l # End /\ l = Delimiter
  <2> DEFINE kept == IF scan.name = <<>> THEN scan.value ELSE <<>>
  <2>1. next = [scan EXCEPT !.fields = Closed(scan), !.name = <<>>, !.at = "headers",
                            !.value = kept]
    BY <1>5 DEF ScanLine
  <2>2. Sequence(kept)
    BY <1>1
  <2> HIDE DEF kept
  <2>3. /\ DOMAIN next = {"fields", "name", "value", "at"} /\ next.fields = Closed(scan)
        /\ next.name = <<>> /\ next.value = kept
    BY <1>1, <2>1
  <2> HIDE DEF next
  <2> QED BY <1>1, <2>2, <2>3 DEF IsScan, next
<1>6. CASE scan.at \in {"headers", "value"} /\ l \notin {End, Delimiter}
  <2>1. next = ScanPart(scan, l)
    BY <1>6 DEF ScanLine
  <2>2. CASE scan.at = "value"
    <3>1. next = [scan EXCEPT !.value = Append(@, l)]
      BY <2>1, <2>2 DEF ScanPart
    <3>2. /\ DOMAIN next = {"fields", "name", "value", "at"} /\ next.fields = scan.fields
          /\ next.name = scan.name /\ next.value = Append(scan.value, l)
      BY <1>1, <3>1
    <3> HIDE DEF next
    <3> QED BY <1>1, <1>2, <3>2 DEF IsScan, next
  <2>3. CASE scan.at # "value" /\ l = Blank
    <3>1. next = [scan EXCEPT !.at = "value"]
      BY <2>1, <2>3 DEF ScanPart
    <3>2. /\ DOMAIN next = {"fields", "name", "value", "at"} /\ next.fields = scan.fields
          /\ next.name = scan.name /\ next.value = scan.value
      BY <1>1, <3>1
    <3> HIDE DEF next
    <3> QED BY <1>1, <3>2 DEF IsScan, next
  <2>4. CASE scan.at # "value" /\ l # Blank /\ \E n \in DOMAIN Disposition : Disposition[n] = l
    <3> DEFINE n == CHOOSE n \in DOMAIN Disposition : Disposition[n] = l
    <3>1. next = [scan EXCEPT !.name = <<n>>]
      BY <2>1, <2>4 DEF ScanPart
    <3>2. n \in DOMAIN Disposition
      BY <2>4
    <3> HIDE DEF n
    <3>3. /\ DOMAIN next = {"fields", "name", "value", "at"} /\ next.fields = scan.fields
          /\ next.name = <<n>> /\ next.value = scan.value
      BY <1>1, <3>1
    <3> HIDE DEF next
    <3> QED BY <1>1, <3>2, <3>3 DEF IsScan, next
  <2>5. CASE scan.at # "value" /\ l # Blank /\ ~\E n \in DOMAIN Disposition : Disposition[n] = l
    BY <2>1, <2>5 DEF ScanPart
  <2> QED BY <2>2, <2>3, <2>4, <2>5
<1>7. CASE /\ scan.at # "over" /\ l \notin {End, Delimiter}
           /\ scan.at \notin {"headers", "value"}
  BY <1>7 DEF ScanLine
<1> QED BY <1>3, <1>4, <1>5, <1>6, <1>7

\* What is read out of a body is a form.
LEMMA FieldsAreForm ==
  ASSUME NEW body, Sequence(body)
  PROVE  IsForm(Fields(body))
<1> DEFINE S == {body[i] : i \in DOMAIN body}
<1>1. body \in Seq(S)
  BY DEF Sequence
<1>2. PICK f : Scanning(f, NotBegun, body)
  <2> HIDE DEF S
  <2> QED BY <1>1, ScanLaw
<1> DEFINE good == {i \in 0 .. Len(body) : IsScan(f[i])}
<1>3. Len(body) \in Nat
  BY <1>1
<1>4. 0 \in good
  BY <1>2, <1>3, EmptySequence DEF Scanning, IsScan, NotBegun
<1>5. ASSUME NEW i \in 1 .. Len(body), i - 1 \in good PROVE i \in good
  <2>1. f[i] = ScanLine(f[i - 1], body[i]) /\ i \in 0 .. Len(body)
    BY <1>2, <1>3 DEF Scanning
  <2> QED BY <1>5, <2>1, ScanLineKeeps
<1>6. Len(body) \in good
  <2> HIDE DEF good
  <2>1. \A i \in 0 .. Len(body) : i \in good
    BY <1>3, <1>4, <1>5, Upward
  <2> QED BY <1>3, <2>1
<1>7. IsScan(Scanned(NotBegun, body))
  BY <1>2, <1>6 DEF Scanning
<1> QED BY <1>7 DEF Fields, IsScan

-----------------------------------------------------------------------------
(* A form that is saved is read back.                                      *)

\* The scan is at the headers of a part, or in its value.
AtHeaders(fields, name) ==
  [fields |-> fields, name |-> name, value |-> <<>>, at |-> "headers"]
AtValue(fields, name, value) ==
  [fields |-> fields, name |-> name, value |-> value, at |-> "value"]

\* The lines of a field.
FieldLines(x) == <<Delimiter, Disposition[x[1]], Blank>> \o x[2]

\* The scan reads a value to its end.
LEMMA ValueIsRead ==
  ASSUME NEW fields, NEW name, NEW value, Sequence(value), NEW v, Sequence(v),
         \A k \in DOMAIN v : v[k] \notin {Delimiter, End}
  PROVE  Scanned(AtValue(fields, name, value), v) = AtValue(fields, name, value \o v)
<1> DEFINE S == {value[i] : i \in DOMAIN value} \cup {v[i] : i \in DOMAIN v}
           scan == AtValue(fields, name, value)
<1>1. value \in Seq(S) /\ v \in Seq(S) /\ Len(v) \in Nat /\ DOMAIN v = 1 .. Len(v)
  BY DEF Sequence
<1> HIDE DEF S
<1>2. PICK f : Scanning(f, scan, v)
  <2> HIDE DEF scan
  <2> QED BY <1>1, ScanLaw
<1> DEFINE good == {i \in 0 .. Len(v) : f[i] = AtValue(fields, name, value \o SubSeq(v, 1, i))}
<1>3. 0 \in good
  <2>1. value \o SubSeq(v, 1, 0) = value
    BY <1>1
  <2>2. f[0] = AtValue(fields, name, value \o SubSeq(v, 1, 0))
    <3>1. f[0] = AtValue(fields, name, value)
      BY <1>2 DEF Scanning
    <3> QED BY <2>1, <3>1, Zenon
  <2>3. 0 \in 0 .. Len(v)
    BY <1>1
  <2> QED BY <2>2, <2>3, Zenon
<1>4. ASSUME NEW i \in 1 .. Len(v), i - 1 \in good PROVE i \in good
  <2> DEFINE before == value \o SubSeq(v, 1, i - 1)
  <2>1. f[i] = ScanLine(f[i - 1], v[i])
    BY <1>2 DEF Scanning
  <2>2. f[i - 1] = AtValue(fields, name, before)
    BY <1>4
  <2>3. Append(before, v[i]) = value \o SubSeq(v, 1, i)
    <3>1. v[i] \in S /\ i \in Nat /\ i <= Len(v)
      BY <1>1 DEF S
    <3> DEFINE up == SubSeq(v, 1, i - 1)
    <3>2. up \in Seq(S) /\ SubSeq(v, 1, i) = Append(up, v[i])
      BY <1>1
    <3> HIDE DEF up, S
    <3>3. Append(value \o up, v[i]) = value \o Append(up, v[i])
      <4>1. \A a, b \in Seq(S) : \A x \in S : Append(a \o b, x) = a \o Append(b, x)
        OBVIOUS
      <4> QED BY <1>1, <3>1, <3>2, <4>1, Zenon
    <3> QED BY <3>2, <3>3, Zenon DEF up, before
  <2>4. v[i] \notin {Delimiter, End}
    BY <1>1
  <2> HIDE DEF before
  <2>5. ASSUME NEW l, l \notin {Delimiter, End}
        PROVE  ScanLine(AtValue(fields, name, before), l)
                 = AtValue(fields, name, Append(before, l))
    <3>1. ScanLine(AtValue(fields, name, before), l) = ScanPart(AtValue(fields, name, before), l)
      BY <2>5 DEF ScanLine, AtValue
    <3>2. ScanPart(AtValue(fields, name, before), l)
            = [AtValue(fields, name, before) EXCEPT !.value = Append(@, l)]
      BY DEF ScanPart, AtValue
    <3>3. [AtValue(fields, name, before) EXCEPT !.value = Append(@, l)]
            = AtValue(fields, name, Append(before, l))
      BY DEF AtValue
    <3> QED BY <3>1, <3>2, <3>3
  <2>6. f[i] = AtValue(fields, name, value \o SubSeq(v, 1, i))
    BY <2>1, <2>2, <2>3, <2>4, <2>5, Zenon
  <2>7. i \in 0 .. Len(v)
    BY <1>1
  <2> QED BY <2>6, <2>7, Zenon
<1>5. Len(v) \in good
  <2> HIDE DEF good
  <2>1. \A i \in 0 .. Len(v) : i \in good
    BY <1>1, <1>3, <1>4, Upward
  <2> QED BY <1>1, <2>1
<1>6. SubSeq(v, 1, Len(v)) = v
  BY <1>1
<1> QED BY <1>2, <1>5, <1>6 DEF Scanning

\* The scan reads a field behind a delimiter that leaves it at headers.
LEMMA FieldIsRead ==
  ASSUME NEW scan, NEW fields, ScanLine(scan, Delimiter) = AtHeaders(fields, <<>>),
         NEW n \in DOMAIN Disposition, NEW v, Sequence(v),
         \A k \in DOMAIN v : v[k] \notin {Delimiter, End}
  PROVE  Scanned(scan, FieldLines(<<n, v>>)) = AtValue(fields, <<n>>, v)
<1> DEFINE top == <<Delimiter, Disposition[n], Blank>>
           S == {top[i] : i \in DOMAIN top} \cup {v[i] : i \in DOMAIN v}
<1>1. top \in Seq(S) /\ v \in Seq(S) /\ Len(top) = 3
  BY DEF Sequence
<1>2. top[1] = Delimiter /\ top[2] = Disposition[n] /\ top[3] = Blank
  OBVIOUS
<1>3. FieldLines(<<n, v>>) = top \o v
  BY DEF FieldLines
<1>4. ScanLine(AtHeaders(fields, <<>>), Disposition[n]) = AtHeaders(fields, <<n>>)
  <2> DEFINE l == Disposition[n]
             s == AtHeaders(fields, <<>>)
  <2>1. l \notin {Blank, Delimiter, End}
    BY EditorAssumption
  <2>2. (CHOOSE m \in DOMAIN Disposition : Disposition[m] = l) = n
    BY EditorAssumption
  <2>3. \E m \in DOMAIN Disposition : Disposition[m] = l
    OBVIOUS
  <2> HIDE DEF l
  <2>4. ScanLine(s, l) = ScanPart(s, l)
    BY <2>1 DEF ScanLine, AtHeaders
  <2>5. ScanPart(s, l) = [s EXCEPT !.name = <<CHOOSE m \in DOMAIN Disposition : Disposition[m] = l>>]
    BY <2>1, <2>3 DEF ScanPart, AtHeaders
  <2>6. ScanPart(s, l) = [s EXCEPT !.name = <<n>>]
    BY <2>2, <2>5, Zenon
  <2>7. [s EXCEPT !.name = <<n>>] = AtHeaders(fields, <<n>>)
    BY DEF AtHeaders
  <2> QED BY <2>4, <2>6, <2>7 DEF l
<1>5. ScanLine(AtHeaders(fields, <<n>>), Blank) = AtValue(fields, <<n>>, <<>>)
  <2>1. Blank \notin {Delimiter, End}
    BY EditorAssumption
  <2>2. ScanLine(AtHeaders(fields, <<n>>), Blank) = ScanPart(AtHeaders(fields, <<n>>), Blank)
    BY <2>1 DEF ScanLine, AtHeaders
  <2>3. ScanPart(AtHeaders(fields, <<n>>), Blank)
          = [AtHeaders(fields, <<n>>) EXCEPT !.at = "value"]
    BY DEF ScanPart, AtHeaders
  <2>4. [AtHeaders(fields, <<n>>) EXCEPT !.at = "value"] = AtValue(fields, <<n>>, <<>>)
    BY DEF AtHeaders, AtValue
  <2> QED BY <2>2, <2>3, <2>4
<1> HIDE DEF top, S
<1>6. Scanned(scan, top) = AtValue(fields, <<n>>, <<>>)
  <2>1. PICK f : Scanning(f, scan, top)
    BY <1>1, ScanLaw
  <2>2. /\ f[0] = scan /\ f[1] = ScanLine(f[0], top[1])
        /\ f[2] = ScanLine(f[1], top[2]) /\ f[3] = ScanLine(f[2], top[3])
        /\ Scanned(scan, top) = f[3]
    BY <1>1, <2>1 DEF Scanning
  <2> QED BY <1>2, <1>4, <1>5, <2>2
<1>7. Scanned(scan, top \o v) = Scanned(AtValue(fields, <<n>>, <<>>), v)
  BY <1>1, <1>6, ScanMore
<1>8. Scanned(AtValue(fields, <<n>>, <<>>), v) = AtValue(fields, <<n>>, <<>> \o v)
  <2>1. ASSUME NEW w, Sequence(w)
        PROVE  Scanned(AtValue(fields, <<n>>, w), v) = AtValue(fields, <<n>>, w \o v)
    BY <2>1, ValueIsRead
  <2>2. Sequence(<<>>)
    BY EmptySequence
  <2> QED BY <2>1, <2>2
<1>9. <<>> \o v = v
  BY <1>1
<1> QED BY <1>3, <1>7, <1>8, <1>9

\* The beginning of a form is a form.
LEMMA FormPrefix ==
  ASSUME NEW form, IsForm(form), NEW k \in 0 .. Len(form)
  PROVE  IsForm(SubSeq(form, 1, k))
<1> DEFINE S == {form[i] : i \in DOMAIN form}
           p == SubSeq(form, 1, k)
<1>1. form \in Seq(S) /\ Len(form) \in Nat
  BY DEF IsForm, Sequence
<1> HIDE DEF S
<1>2. p \in Seq(S) /\ Len(p) = k /\ DOMAIN p = 1 .. k /\ k \in Nat
      /\ \A i \in 1 .. k : p[i] = form[i] /\ i \in DOMAIN form
  BY <1>1
<1> HIDE DEF p
<1>3. p = [i \in 1 .. k |-> p[i]]
  BY <1>2
<1>4. Sequence(p)
  BY <1>2, <1>3, IsSequence
<1> QED BY <1>2, <1>4 DEF IsForm, p

\* The lines a form is written with.
LinesOf(form) ==
  {Delimiter, Blank, End} \cup {Disposition[n] : n \in DOMAIN Disposition}
  \cup UNION {{form[i][2][k] : k \in DOMAIN form[i][2]} : i \in DOMAIN form}

\* Fields are sequences of them.
LEMMA FieldBlocks ==
  ASSUME NEW form, IsForm(form)
  PROVE  /\ [i \in DOMAIN form |-> FieldLines(form[i])] \in Seq(Seq(LinesOf(form)))
         /\ Len([i \in DOMAIN form |-> FieldLines(form[i])]) = Len(form)
<1> DEFINE blocks == [i \in DOMAIN form |-> FieldLines(form[i])]
           T == LinesOf(form)
           n == Len(form)
<1>1. n \in Nat /\ DOMAIN form = 1 .. n /\ \A i \in 1 .. n : IsField(form[i])
  BY DEF IsForm, Sequence
<1>2. ASSUME NEW i \in 1 .. n PROVE FieldLines(form[i]) \in Seq(T)
  <2>1. form[i][2] \in Seq({form[i][2][k] : k \in DOMAIN form[i][2]})
    BY <1>1 DEF IsField, IsValue, Sequence
  <2>2. {form[i][2][k] : k \in DOMAIN form[i][2]} \subseteq T
    BY <1>1 DEF LinesOf
  <2>3. <<Delimiter, Disposition[form[i][1]], Blank>> \in Seq(T)
    BY <1>1 DEF IsField, LinesOf
  <2> HIDE DEF T
  <2>4. form[i][2] \in Seq(T)
    BY <2>1, <2>2
  <2> QED BY <2>3, <2>4 DEF FieldLines
<1> HIDE DEF T, n
<1>3. blocks = [i \in 1 .. n |-> FieldLines(form[i])]
  BY <1>1
<1>4. blocks \in [1 .. n -> Seq(T)]
  BY <1>2, <1>3
<1> HIDE DEF blocks
<1>5. blocks \in Seq(Seq(T))
  BY <1>1, <1>4
<1>6. Len(blocks) \in Nat /\ DOMAIN blocks = 1 .. Len(blocks) /\ DOMAIN blocks = 1 .. n
  BY <1>4, <1>5
<1>7. Len(blocks) = n
  <2>1. \A m, k \in Nat : 1 .. m = 1 .. k => m = k
    OBVIOUS
  <2>2. n \in Nat /\ Len(blocks) \in Nat /\ 1 .. Len(blocks) = 1 .. n
    BY <1>1, <1>6
  <2> QED BY <2>1, <2>2
<1> QED BY <1>5, <1>7 DEF blocks, T, n

LEMMA SerializedIsSequence ==
  ASSUME NEW form, IsForm(form)
  PROVE  Sequence(Serialized(form))
<1> DEFINE blocks == [i \in DOMAIN form |-> FieldLines(form[i])]
           T == LinesOf(form)
<1>1. Serialized(form) = FlattenSeq(blocks) \o <<End>>
  BY DEF Serialized, FieldLines
<1>2. blocks \in Seq(Seq(T)) /\ End \in T
  BY FieldBlocks DEF LinesOf
<1> HIDE DEF blocks, T
<1>3. FlattenSeq(blocks) \in Seq(T)
  BY <1>2, FlattenType
<1>4. Serialized(form) \in Seq(T)
  BY <1>1, <1>2, <1>3
<1>5. /\ Len(Serialized(form)) \in Nat
      /\ Serialized(form) = [i \in 1 .. Len(Serialized(form)) |-> Serialized(form)[i]]
  BY <1>4
<1> QED BY <1>5, IsSequence

\* What serialize_form_body writes, parse_multipart_fields reads.
LEMMA ReadBack ==
  ASSUME NEW form, IsForm(form),
         \A i \in DOMAIN form : \A k \in DOMAIN form[i][2] :
           form[i][2][k] \notin {Delimiter, End}
  PROVE  Fields(Serialized(form)) = form
<1> DEFINE blocks == [i \in DOMAIN form |-> FieldLines(form[i])]
           T == LinesOf(form)
           n == Len(form)
           F == {form[i] : i \in DOMAIN form}
<1>0. form \in Seq(F) /\ n \in Nat /\ DOMAIN form = 1 .. n
  BY DEF IsForm, Sequence
<1>1. \A i \in 1 .. n : IsField(form[i])
  BY <1>0 DEF IsForm
<1>2. Serialized(form) = FlattenSeq(blocks) \o <<End>>
  BY DEF Serialized, FieldLines
<1>3. blocks \in Seq(Seq(T)) /\ Len(blocks) = n
  BY FieldBlocks
<1>4. PICK f : Flattening(f, blocks, T)
  <2> HIDE DEF blocks, T, n
  <2> QED BY <1>3, FlattenLaw
<1>5. /\ FlattenSeq(blocks) = f[n]
      /\ f[0] = <<>>
      /\ \A i \in 0 .. n : f[i] \in Seq(T)
      /\ \A i \in 1 .. n : f[i] = f[i - 1] \o FieldLines(form[i]) /\ FieldLines(form[i]) \in Seq(T)
  <2> HIDE DEF T
  <2>1. \A i \in 1 .. n : blocks[i] = FieldLines(form[i])
    BY <1>0
  <2>2. \A i \in 1 .. n : blocks[i] \in Seq(T)
    BY <1>0, <1>3
  <2> HIDE DEF n, blocks
  <2> QED BY <1>3, <1>4, <2>1, <2>2 DEF Flattening
<1> DEFINE State(i) == IF i = 0 THEN NotBegun
                       ELSE AtValue(SubSeq(form, 1, i - 1), <<form[i][1]>>, form[i][2])
<1>6. ASSUME NEW i \in 0 .. n
      PROVE  /\ Closed(State(i)) = SubSeq(form, 1, i)
             /\ State(i).at # "over"
             /\ State(i).name = <<>> => State(i).value = <<>>
             /\ State(i) = [fields |-> State(i).fields, name |-> State(i).name,
                            value |-> State(i).value, at |-> State(i).at]
  <2>1. CASE i = 0
    <3>1. IsScan(NotBegun)
      BY EmptySequence DEF IsScan, NotBegun
    <3>2. NotBegun.name = <<>> /\ NotBegun.fields = <<>> /\ NotBegun.value = <<>>
          /\ NotBegun.at # "over"
          /\ NotBegun = [fields |-> NotBegun.fields, name |-> NotBegun.name,
                         value |-> NotBegun.value, at |-> NotBegun.at]
      BY DEF NotBegun
    <3>3. Closed(NotBegun) = <<>>
      BY <3>1, <3>2, ClosedForm
    <3>4. SubSeq(form, 1, 0) = <<>>
      BY <1>0
    <3> QED BY <2>1, <3>2, <3>3, <3>4
  <2>2. CASE i # 0
    <3> DEFINE s == AtValue(SubSeq(form, 1, i - 1), <<form[i][1]>>, form[i][2])
    <3>1. i \in 1 .. n /\ i - 1 \in 0 .. n
      BY <1>0, <2>2
    <3>2. IsField(form[i]) /\ IsForm(SubSeq(form, 1, i - 1))
      BY <1>1, <3>1, FormPrefix
    <3>3. /\ s.fields = SubSeq(form, 1, i - 1) /\ s.name = <<form[i][1]>>
          /\ s.value = form[i][2] /\ s.at = "value"
          /\ s = [fields |-> s.fields, name |-> s.name, value |-> s.value, at |-> s.at]
          /\ DOMAIN s = {"fields", "name", "value", "at"}
      BY DEF AtValue
    <3> HIDE DEF s
    <3>4. IsScan(s)
      BY <3>2, <3>3 DEF IsScan, IsField, IsValue
    <3>5. Trimmed(form[i][2]) = form[i][2]
      BY <3>2, TrimmedIsValue DEF IsField, IsValue
    <3>6. Closed(s) = SubSeq(form, 1, i - 1) \o << <<form[i][1], form[i][2]>> >>
      BY <3>3, <3>4, <3>5, ClosedForm
    <3>7. <<form[i][1], form[i][2]>> = form[i]
      BY <3>2 DEF IsField
    <3>8. SubSeq(form, 1, i - 1) \o <<form[i]>> = SubSeq(form, 1, i)
      BY <1>0, <3>1
    <3>9. State(i) = s
      BY <2>2, Zenon DEF s
    <3>10. s.name # <<>>
      BY <3>3
    <3> QED BY <3>3, <3>6, <3>7, <3>8, <3>9, <3>10
  <2> QED BY <2>1, <2>2
<1> DEFINE good == {i \in 0 .. n : Scanned(NotBegun, f[i]) = State(i)}
<1>7. 0 \in good
  BY <1>0, <1>5, ScanNothing
<1>8. ASSUME NEW i \in 1 .. n, i - 1 \in good PROVE i \in good
  <2> DEFINE s == State(i - 1)
             t == ScanLine(s, Delimiter)
             kept == IF s.name = <<>> THEN s.value ELSE <<>>
  <2>1. i - 1 \in 0 .. n /\ i \in 0 .. n /\ i # 0
    BY <1>0
  <2>2. Scanned(NotBegun, f[i - 1]) = s
    BY <1>8
  <2>3. /\ Closed(s) = SubSeq(form, 1, i - 1) /\ s.at # "over" /\ kept = <<>>
        /\ s = [fields |-> s.fields, name |-> s.name, value |-> s.value, at |-> s.at]
    BY <1>6, <2>1
  <2>4. f[i] = f[i - 1] \o FieldLines(form[i]) /\ f[i - 1] \in Seq(T) /\ FieldLines(form[i]) \in Seq(T)
    BY <1>5, <2>1
  <2> HIDE DEF s, T, n, blocks, State
  <2>5. t = [s EXCEPT !.fields = Closed(s), !.name = <<>>, !.at = "headers", !.value = kept]
    BY <2>3, EditorAssumption DEF ScanLine
  <2> HIDE DEF t
  <2>6. t = AtHeaders(SubSeq(form, 1, i - 1), <<>>)
    <3>1. \A a, b, c, d :
            [[fields |-> a, name |-> b, value |-> c, at |-> d] EXCEPT
               !.fields = Closed(s), !.name = <<>>, !.at = "headers", !.value = kept]
              = AtHeaders(Closed(s), <<>>)
      <4> SUFFICES ASSUME NEW c, NEW k, k = <<>>
                   PROVE  \A a, b, v, d :
                            [[fields |-> a, name |-> b, value |-> v, at |-> d] EXCEPT
                               !.fields = c, !.name = <<>>, !.at = "headers", !.value = k]
                              = AtHeaders(c, <<>>)
        BY <2>3, Zenon
      <4> TAKE a, b, v, d
      <4> DEFINE e == [[fields |-> a, name |-> b, value |-> v, at |-> d] EXCEPT
                         !.fields = c, !.name = <<>>, !.at = "headers", !.value = k]
      <4>1. e = [fields |-> e.fields, name |-> e.name, value |-> e.value, at |-> e.at]
        <5>1. e = [x \in {"fields", "name", "value", "at"} |-> e[x]]
          OBVIOUS
        <5> HIDE DEF e
        <5> QED BY <5>1
      <4>2. e.fields = c /\ e.name = <<>> /\ e.value = k /\ e.at = "headers"
        OBVIOUS
      <4> HIDE DEF e
      <4>3. e = AtHeaders(c, <<>>)
        BY <4>1, <4>2 DEF AtHeaders
      <4> QED BY <4>3 DEF e
    <3> QED BY <2>3, <2>5, <3>1
  <2>7. /\ form[i][1] \in DOMAIN Disposition /\ Sequence(form[i][2])
        /\ form[i] = <<form[i][1], form[i][2]>>
        /\ \A k \in DOMAIN form[i][2] : form[i][2][k] \notin {Delimiter, End}
    BY <1>0, <1>1 DEF IsField, IsValue
  <2>8. Scanned(s, FieldLines(<<form[i][1], form[i][2]>>))
          = AtValue(SubSeq(form, 1, i - 1), <<form[i][1]>>, form[i][2])
    BY <2>6, <2>7, FieldIsRead DEF t
  <2>9. Scanned(NotBegun, f[i]) = Scanned(s, FieldLines(form[i]))
    BY <2>2, <2>4, ScanMore
  <2> QED BY <2>1, <2>7, <2>8, <2>9 DEF State
<1>9. n \in good
  <2> HIDE DEF good, n
  <2>1. \A i \in 0 .. n : i \in good
    BY <1>0, <1>7, <1>8, Upward
  <2> QED BY <1>0, <2>1
<1>10. n \in 0 .. n /\ f[n] \in Seq(T) /\ <<End>> \in Seq(T)
  <2>1. End \in T
    BY DEF LinesOf
  <2>2. n \in 0 .. n
    BY <1>0
  <2> HIDE DEF T, n
  <2>3. <<End>> \in Seq(T)
    BY <2>1
  <2>4. f[n] \in Seq(T)
    BY <1>5, <2>2, Zenon
  <2> QED BY <2>2, <2>3, <2>4
<1> DEFINE s == State(n)
<1>11. Scanned(NotBegun, f[n]) = s
  BY <1>9
<1>12. /\ Closed(s) = SubSeq(form, 1, n) /\ s.at # "over"
      /\ s = [fields |-> s.fields, name |-> s.name, value |-> s.value, at |-> s.at]
  BY <1>6, <1>10
<1>13. SubSeq(form, 1, n) = form
  BY <1>0
<1> HIDE DEF s, T, n, blocks
<1>14. Scanned(NotBegun, f[n] \o <<End>>) = ScanLine(s, End)
  <2>1. Scanned(NotBegun, f[n] \o <<End>>) = Scanned(Scanned(NotBegun, f[n]), <<End>>)
    <3>1. \A a, b \in Seq(T) :
            Scanned(NotBegun, a \o b) = Scanned(Scanned(NotBegun, a), b)
      BY ScanMore
    <3> QED BY <1>10, <3>1
  <2> QED BY <1>11, <2>1, ScanOne
<1>15. ScanLine(s, End) = [s EXCEPT !.fields = Closed(s), !.at = "over"]
  BY <1>12, EditorAssumption DEF ScanLine
<1>16. ScanLine(s, End).fields = Closed(s)
  BY <1>12, <1>15
<1> QED BY <1>2, <1>5, <1>12, <1>13, <1>14, <1>16 DEF Fields

-----------------------------------------------------------------------------
(* Rows that are inserted and removed.                                     *)

\* A row more: the others move, if at all.
LEMMA Inserted ==
  ASSUME NEW s, Sequence(s), NEW i \in 1 .. Len(s) + 1, NEW x
  PROVE  /\ Sequence(InsertAt(s, i, x)) /\ Len(InsertAt(s, i, x)) = Len(s) + 1
         /\ \A j \in DOMAIN InsertAt(s, i, x) :
              InsertAt(s, i, x)[j] = x \/ \E k \in DOMAIN s : InsertAt(s, i, x)[j] = s[k]
<1> DEFINE S == {s[k] : k \in DOMAIN s}
           T == S \cup {x}
           t == InsertAt(s, i, x)
<1>1. s \in Seq(S) /\ s \in Seq(T) /\ x \in T /\ Len(s) \in Nat
  BY DEF Sequence
<1>2. \A y \in T : y = x \/ \E k \in DOMAIN s : y = s[k]
  OBVIOUS
<1>3. t = SubSeq(s, 1, i - 1) \o <<x>> \o SubSeq(s, i, Len(s))
  BY DEF InsertAt
<1> HIDE DEF S, T, t
<1> DEFINE a == SubSeq(s, 1, i - 1)
           b == SubSeq(s, i, Len(s))
<1>4. a \in Seq(T) /\ Len(a) = i - 1
  BY <1>1
<1>5. b \in Seq(T) /\ Len(b) = Len(s) - i + 1
  BY <1>1
<1> HIDE DEF a, b
<1>6. t = a \o <<x>> \o b
  BY <1>3 DEF a, b
<1>7. t \in Seq(T) /\ Len(t) = Len(s) + 1
  BY <1>1, <1>4, <1>5, <1>6
<1>8. t = [j \in 1 .. Len(s) + 1 |-> t[j]] /\ \A j \in DOMAIN t : t[j] \in T
  BY <1>7
<1>9. Sequence(t)
  BY <1>1, <1>8, IsSequence
<1> QED BY <1>2, <1>7, <1>8, <1>9 DEF t

\* A row less.
LEMMA Removed ==
  ASSUME NEW s, Sequence(s), NEW i \in DOMAIN s
  PROVE  /\ Sequence(RemoveAt(s, i)) /\ Len(RemoveAt(s, i)) = Len(s) - 1
         /\ \A j \in DOMAIN RemoveAt(s, i) : \E k \in DOMAIN s : RemoveAt(s, i)[j] = s[k]
<1> DEFINE S == {s[k] : k \in DOMAIN s}
           t == RemoveAt(s, i)
<1>1. s \in Seq(S) /\ Len(s) \in Nat /\ i \in 1 .. Len(s)
  BY DEF Sequence
<1>2. \A y \in S : \E k \in DOMAIN s : y = s[k]
  OBVIOUS
<1>3. t = SubSeq(s, 1, i - 1) \o SubSeq(s, i + 1, Len(s))
  BY DEF RemoveAt
<1> HIDE DEF S, t
<1> DEFINE a == SubSeq(s, 1, i - 1)
           b == SubSeq(s, i + 1, Len(s))
<1>4. a \in Seq(S) /\ Len(a) = i - 1
  BY <1>1
<1>5. b \in Seq(S) /\ Len(b) = Len(s) - i
  BY <1>1
<1> HIDE DEF a, b
<1>6. t = a \o b
  BY <1>3 DEF a, b
<1>7. t \in Seq(S) /\ Len(t) = Len(s) - 1 /\ Len(s) - 1 \in Nat
  BY <1>1, <1>4, <1>5, <1>6
<1>8. t = [j \in 1 .. Len(s) - 1 |-> t[j]] /\ \A j \in DOMAIN t : t[j] \in S
  BY <1>7
<1>9. Sequence(t)
  BY <1>7, <1>8, IsSequence
<1> QED BY <1>2, <1>7, <1>8, <1>9 DEF t

\* A row changed.
LEMMA Changed ==
  ASSUME NEW s, Sequence(s), NEW i, NEW x
  PROVE  /\ Sequence([s EXCEPT ![i] = x]) /\ Len([s EXCEPT ![i] = x]) = Len(s)
         /\ DOMAIN [s EXCEPT ![i] = x] = DOMAIN s
         /\ s = <<>> => [s EXCEPT ![i] = x] = <<>>
<1> DEFINE t == [s EXCEPT ![i] = x]
<1>1. Len(s) \in Nat /\ DOMAIN s = 1 .. Len(s)
  BY DEF Sequence
<1>2. t = [j \in 1 .. Len(s) |-> t[j]] /\ DOMAIN t = DOMAIN s
  BY <1>1
<1>3. s = <<>> => t = <<>>
  OBVIOUS
<1> HIDE DEF t
<1> QED BY <1>1, <1>2, <1>3, IsSequence DEF t

LEMMA OneElement == \A x : Sequence(<<x>>) /\ <<x>> # <<>> /\ Len(<<x>>) = 1 /\ <<x>>[1] = x
                            /\ Head(<<x>>) = x
BY DEF Sequence

-----------------------------------------------------------------------------
(* The table of parameters.                                                *)

IsTable(p) ==
  /\ DOMAIN p = {"rows", "cursor", "mode", "input"}
  /\ Sequence(p.rows)
  /\ p.cursor \in Nat
  /\ p.rows # <<>> => p.cursor < Len(p.rows)

LEMMA NewTable ==
  ASSUME NEW rows, rows = <<>> \/ \E x : rows = <<x>>
  PROVE  IsTable(ParamRows(rows))
<1>1. Sequence(rows) /\ (rows # <<>> => Len(rows) = 1)
  BY OneElement, EmptySequence
<1>2. /\ DOMAIN ParamRows(rows) = {"rows", "cursor", "mode", "input"}
      /\ ParamRows(rows).rows = rows /\ ParamRows(rows).cursor = 0
  BY DEF ParamRows
<1> QED BY <1>1, <1>2 DEF IsTable

LEMMA EditTable ==
  ASSUME NEW p, IsTable(p), NEW mode
  PROVE  IsTable(EditParam(p, mode))
BY DEF IsTable, EditParam

LEMMA MoveInTable ==
  ASSUME NEW p, IsTable(p)
  PROVE  IsTable(ParamUp(p)) /\ IsTable(ParamDown(p))
BY DEF IsTable, ParamUp, ParamDown

LEMMA MoreParams ==
  ASSUME NEW p, IsTable(p)
  PROVE  IsTable(AddParam(p))
<1> DEFINE rows == Append(p.rows, <<Blank, Blank>>)
           q == AddParam(p)
<1>1. Sequence(rows) /\ Len(rows) = Len(p.rows) + 1 /\ Len(p.rows) \in Nat
  <2> DEFINE x == <<Blank, Blank>>
  <2>1. Sequence(p.rows \o <<x>>) /\ Len(p.rows \o <<x>>) = Len(p.rows) + 1
    BY OneElement, Joined DEF IsTable
  <2>2. Append(p.rows, x) = p.rows \o <<x>> /\ Len(p.rows) \in Nat
    BY DEF IsTable, Sequence
  <2> QED BY <2>1, <2>2
<1>2. /\ DOMAIN q = {"rows", "cursor", "mode", "input"}
      /\ q.rows = rows /\ q.cursor = Len(p.rows)
  BY DEF IsTable, AddParam
<1> HIDE DEF rows, q
<1> QED BY <1>1, <1>2 DEF IsTable, q

LEMMA FewerParams ==
  ASSUME NEW p, IsTable(p)
  PROVE  IsTable(DeleteParam(p))
<1> DEFINE q == DeleteParam(p)
           rows == RemoveAt(p.rows, p.cursor + 1)
<1>1. CASE p.rows = <<>>
  BY <1>1 DEF DeleteParam
<1>2. CASE p.rows # <<>>
  <2>1. p.cursor + 1 \in DOMAIN p.rows /\ Len(p.rows) \in Nat
    BY <1>2 DEF IsTable, Sequence
  <2>2. Sequence(rows) /\ Len(rows) = Len(p.rows) - 1
    BY <2>1, Removed DEF IsTable
  <2>3. /\ DOMAIN q = {"rows", "cursor", "mode", "input"} /\ q.rows = rows
        /\ q.cursor = IF p.cursor + 1 >= Len(p.rows) /\ p.cursor > 0
                      THEN p.cursor - 1 ELSE p.cursor
    BY <1>2 DEF IsTable, DeleteParam
  <2>4. rows # <<>> => Len(rows) # 0
    BY <2>2 DEF Sequence
  <2> HIDE DEF rows, q
  <2> QED BY <1>2, <2>1, <2>2, <2>3, <2>4 DEF IsTable, q
<1> QED BY <1>1, <1>2

LEMMA CloseParam ==
  ASSUME NEW p, IsTable(p)
  PROVE  IsTable(CancelParam(p)) /\ \A t : IsTable([p EXCEPT !.input = t])
BY DEF IsTable, CancelParam

LEMMA ConfirmedParam ==
  ASSUME NEW p, IsTable(p)
  PROVE  IsTable(ConfirmParam(p))
<1>1. CASE p.mode = "key"
  <2> DEFINE row == [p.rows[p.cursor + 1] EXCEPT ![1] = p.input]
             rows == [p.rows EXCEPT ![p.cursor + 1] = row]
             q == [p EXCEPT !.rows[p.cursor + 1][1] = p.input]
  <2>1. Sequence(rows) /\ Len(rows) = Len(p.rows) /\ (rows # <<>> => p.rows # <<>>)
    <3> HIDE DEF row
    <3> QED BY Changed DEF IsTable
  <2>2. DOMAIN q = DOMAIN p /\ q.rows = rows /\ q.cursor = p.cursor
    BY DEF IsTable
  <2>3. ConfirmParam(p) = EditParam(q, "value")
    BY <1>1 DEF ConfirmParam
  <2> HIDE DEF rows, q
  <2>4. IsTable(q)
    BY <2>1, <2>2 DEF IsTable
  <2> QED BY <2>3, <2>4, EditTable
<1>2. CASE p.mode # "key"
  <2> DEFINE row == [p.rows[p.cursor + 1] EXCEPT ![2] = p.input]
             rows == [p.rows EXCEPT ![p.cursor + 1] = row]
             q == ConfirmParam(p)
  <2>1. Sequence(rows) /\ Len(rows) = Len(p.rows) /\ (rows # <<>> => p.rows # <<>>)
    <3> HIDE DEF row
    <3> QED BY Changed DEF IsTable
  <2>2. DOMAIN q = DOMAIN p /\ q.rows = rows /\ q.cursor = p.cursor
    BY <1>2 DEF IsTable, ConfirmParam
  <2> HIDE DEF rows, q
  <2> QED BY <2>1, <2>2 DEF IsTable, q
<1> QED BY <1>1, <1>2

-----------------------------------------------------------------------------
(* The editor of requests.                                                 *)

EditorFields ==
  {"test", "method", "url", "headers", "body", "multipart", "form", "cursor", "editing",
   "key", "input"}

\* The text under way fits the field it is for.
FitsField(e) ==
  e.editing /\ OnField(e) =>
    IF e.key THEN \E n \in DOMAIN Disposition : e.input = <<n>> ELSE IsValue(e.input)

IsEditor(e) ==
  /\ DOMAIN e = EditorFields
  /\ Sequence(e.headers) /\ Sequence(e.body) /\ Sequence(e.input)
  /\ IsForm(e.form)
  /\ e.cursor \in 0 .. RowCount(e) - 1
  /\ FitsField(e)

\* The rows of an editor.
LEMMA RowNumbers ==
  ASSUME NEW e, Sequence(e.headers), IsForm(e.form)
  PROVE  /\ Len(e.headers) \in Nat /\ DOMAIN e.headers = 1 .. Len(e.headers)
         /\ Len(e.form) \in Nat /\ DOMAIN e.form = 1 .. Len(e.form)
         /\ e.form = <<>> => Len(e.form) = 0
         /\ e.form # <<>> => Len(e.form) # 0
         /\ BodyRow(e) = 2 + Len(e.headers) /\ BodyRow(e) \in Nat
         /\ e.form = <<>> => RowCount(e) = BodyRow(e) + 1
         /\ e.form # <<>> => RowCount(e) = BodyRow(e) + Len(e.form)
         /\ RowCount(e) \in Nat \ {0}
<1>1. /\ Len(e.headers) \in Nat /\ DOMAIN e.headers = 1 .. Len(e.headers)
      /\ Len(e.form) \in Nat /\ DOMAIN e.form = 1 .. Len(e.form)
      /\ e.form = <<>> => Len(e.form) = 0
      /\ e.form # <<>> => Len(e.form) # 0
  BY DEF IsForm, Sequence
<1>2. BodyRow(e) = 2 + Len(e.headers) /\ BodyRow(e) \in Nat
  BY <1>1 DEF BodyRow
<1>3. e.form = <<>> => RowCount(e) = BodyRow(e) + 1
  BY DEF RowCount
<1>4. e.form # <<>> => RowCount(e) = BodyRow(e) + Len(e.form)
  BY DEF RowCount
<1>5. CASE e.form = <<>>
  <2>1. RowCount(e) \in Nat \ {0}
    BY <1>2, <1>3, <1>5
  <2> QED BY <1>1, <1>2, <1>3, <1>5, <2>1, Zenon
<1>6. CASE e.form # <<>>
  <2>1. RowCount(e) \in Nat \ {0}
    <3>1. \A a, b \in Nat : b # 0 => a + b \in Nat \ {0}
      OBVIOUS
    <3>2. Len(e.form) \in Nat /\ Len(e.form) # 0 /\ BodyRow(e) \in Nat
      BY <1>1, <1>2, <1>6
    <3>3. RowCount(e) = BodyRow(e) + Len(e.form)
      BY <1>4, <1>6
    <3> QED BY <3>1, <3>2, <3>3
  <2> QED BY <1>1, <1>2, <1>4, <1>6, <2>1, Zenon
<1> QED BY <1>5, <1>6

LEMMA Rows ==
  ASSUME NEW e, IsEditor(e)
  PROVE  /\ RowCount(e) \in Nat \ {0}
         /\ e.cursor \in Nat /\ e.cursor < RowCount(e)
<1>1. RowCount(e) \in Nat \ {0}
  BY RowNumbers DEF IsEditor
<1> QED BY <1>1 DEF IsEditor

LEMMA OpenedEditor ==
  ASSUME NEW ti, NEW request, Sequence(request.headers), Sequence(request.body)
  PROVE  IsEditor(Opened(ti, request))
<1> DEFINE e == Opened(ti, request)
           form == IF HasBoundary(request.headers) THEN Fields(request.body) ELSE <<>>
<1>1. IsForm(form)
  BY FieldsAreForm, EmptySequence
<1> HIDE DEF form
<1>2. /\ DOMAIN e = EditorFields
      /\ e.headers = request.headers /\ e.body = request.body /\ e.input = <<Blank>>
      /\ e.form = form /\ e.cursor = 0 /\ e.editing = FALSE
  BY DEF Opened, EditorFields, form
<1> HIDE DEF e
<1>3. RowCount(e) \in Nat \ {0}
  BY <1>1, <1>2, RowNumbers
<1>4. Sequence(e.input)
  BY <1>2, OneElement
<1> QED BY <1>1, <1>2, <1>3, <1>4 DEF IsEditor, FitsField, e

\* An editor that differs in where it is: no text is under way.
LEMMA MovedEditor ==
  ASSUME NEW e, IsEditor(e), NEW d, DOMAIN d = DOMAIN e,
         d.headers = e.headers, d.body = e.body, d.input = e.input, d.form = e.form,
         d.cursor \in 0 .. RowCount(e) - 1, ~d.editing
  PROVE  IsEditor(d)
<1>1. RowCount(d) = RowCount(e)
  BY DEF RowCount, BodyRow
<1> QED BY <1>1 DEF IsEditor, FitsField

LEMMA MoveInEditor ==
  ASSUME NEW e, IsEditor(e), ~e.editing
  PROVE  IsEditor(Up(e)) /\ IsEditor(Down(e)) /\ IsEditor(SwitchColumn(e))
<1>1. /\ DOMAIN e = EditorFields /\ e.cursor \in Nat /\ e.cursor < RowCount(e)
      /\ RowCount(e) \in Nat
  BY Rows DEF IsEditor
<1>2. IsEditor(Up(e))
  <2>1. CASE e.cursor > 0
    <3> DEFINE d == [e EXCEPT !.cursor = @ - 1]
    <3>1. /\ DOMAIN d = DOMAIN e /\ d.headers = e.headers /\ d.body = e.body
          /\ d.input = e.input /\ d.form = e.form /\ d.editing = e.editing
          /\ d.cursor = e.cursor - 1
      BY <1>1 DEF EditorFields
    <3>2. Up(e) = d
      BY <2>1 DEF Up
    <3> HIDE DEF d
    <3>3. d.cursor \in 0 .. RowCount(e) - 1
      BY <1>1, <2>1, <3>1
    <3> QED BY <3>1, <3>2, <3>3, MovedEditor
  <2>2. CASE ~(e.cursor > 0)
    BY <2>2 DEF Up
  <2> QED BY <2>1, <2>2
<1>3. IsEditor(Down(e))
  <2>1. CASE e.cursor + 1 < RowCount(e)
    <3> DEFINE d == [e EXCEPT !.cursor = @ + 1]
    <3>1. /\ DOMAIN d = DOMAIN e /\ d.headers = e.headers /\ d.body = e.body
          /\ d.input = e.input /\ d.form = e.form /\ d.editing = e.editing
          /\ d.cursor = e.cursor + 1
      BY <1>1 DEF EditorFields
    <3>2. Down(e) = d
      BY <2>1 DEF Down
    <3> HIDE DEF d
    <3>3. d.cursor \in 0 .. RowCount(e) - 1
      BY <1>1, <2>1, <3>1
    <3> QED BY <3>1, <3>2, <3>3, MovedEditor
  <2>2. CASE ~(e.cursor + 1 < RowCount(e))
    BY <2>2 DEF Down
  <2> QED BY <2>1, <2>2
<1>4. IsEditor(SwitchColumn(e))
  <2>1. CASE OnHeader(e) \/ InForm(e)
    <3> DEFINE d == [e EXCEPT !.key = ~@]
    <3>1. /\ DOMAIN d = DOMAIN e /\ d.headers = e.headers /\ d.body = e.body
          /\ d.input = e.input /\ d.form = e.form /\ d.editing = e.editing
          /\ d.cursor = e.cursor
      BY <1>1 DEF EditorFields
    <3>2. SwitchColumn(e) = d
      BY <2>1 DEF SwitchColumn
    <3> HIDE DEF d
    <3>3. d.cursor \in 0 .. RowCount(e) - 1
      BY <1>1, <3>1
    <3> QED BY <3>1, <3>2, <3>3, MovedEditor
  <2>2. CASE ~(OnHeader(e) \/ InForm(e))
    BY <1>3, <2>2 DEF SwitchColumn
  <2> QED BY <2>1, <2>2
<1> QED BY <1>2, <1>3, <1>4

\* What is copied into the input.
LEMMA CellFits ==
  ASSUME NEW e, DOMAIN e = EditorFields, Sequence(e.headers), Sequence(e.body),
         IsForm(e.form), e.cursor \in Nat
  PROVE  /\ Sequence(Cell(e))
         /\ OnField(e) => IF e.key THEN \E n \in DOMAIN Disposition : Cell(e) = <<n>>
                          ELSE IsValue(Cell(e))
<1>1. Len(e.headers) \in Nat /\ Len(e.form) \in Nat /\ DOMAIN e.form = 1 .. Len(e.form)
  BY DEF Sequence, IsForm
<1>2. CASE OnField(e)
  <2>1. e.cursor # 0 /\ e.cursor # 1 /\ ~OnHeader(e) /\ Field(e) \in DOMAIN e.form
    BY <1>1, <1>2 DEF OnField, InForm, BodyRow, OnHeader, Field
  <2>2. Cell(e) = IF e.key THEN <<e.form[Field(e)][1]>> ELSE e.form[Field(e)][2]
    BY <1>2, <2>1, Zenon DEF Cell
  <2>3. IsField(e.form[Field(e)])
    BY <2>1 DEF IsForm
  <2>4. e.form[Field(e)][1] \in DOMAIN Disposition /\ IsValue(e.form[Field(e)][2])
    BY <2>3 DEF IsField
  <2> QED BY <2>2, <2>4, OneElement DEF IsValue
<1>3. CASE ~OnField(e)
  <2>1. \/ \E x : Cell(e) = <<x>>
        \/ Cell(e) = e.body
    BY <1>3 DEF Cell
  <2> QED BY <1>3, <2>1, OneElement
<1> QED BY <1>2, <1>3

LEMMA StartedEditor ==
  ASSUME NEW e, IsEditor(e)
  PROVE  IsEditor(StartEdit(e))
<1>1. CASE InForm(e) /\ ~OnField(e)
  BY <1>1 DEF StartEdit
<1>2. CASE ~(InForm(e) /\ ~OnField(e))
  <2> DEFINE cell == Cell(e)
             d == [e EXCEPT !.input = cell, !.editing = TRUE]
  <2>1. /\ DOMAIN d = EditorFields /\ d.headers = e.headers /\ d.body = e.body
        /\ d.input = cell /\ d.form = e.form /\ d.cursor = e.cursor /\ d.key = e.key
        /\ d.multipart = e.multipart
    <3> HIDE DEF cell
    <3> QED BY DEF IsEditor, EditorFields
  <2>2. StartEdit(e) = d
    BY <1>2 DEF StartEdit
  <2>3. /\ Sequence(cell)
        /\ OnField(e) => IF e.key THEN \E n \in DOMAIN Disposition : cell = <<n>>
                         ELSE IsValue(cell)
    BY CellFits, Rows DEF IsEditor
  <2> HIDE DEF cell, d
  <2>4. RowCount(d) = RowCount(e) /\ (OnField(d) <=> OnField(e))
    BY <2>1 DEF RowCount, BodyRow, OnField, InForm
  <2>5. FitsField(d)
    BY <2>1, <2>3, <2>4 DEF FitsField
  <2> QED BY <2>1, <2>2, <2>3, <2>4, <2>5 DEF IsEditor
<1> QED BY <1>1, <1>2

\* An editor whose headers or form have changed: no text is under way.
LEMMA EditorWith ==
  ASSUME NEW e, IsEditor(e), NEW d, DOMAIN d = DOMAIN e,
         Sequence(d.headers), Sequence(d.body), Sequence(d.input), IsForm(d.form),
         d.cursor \in 0 .. RowCount(d) - 1, ~d.editing
  PROVE  IsEditor(d)
BY DEF IsEditor, FitsField

LEMMA AddedHeader ==
  ASSUME NEW e, IsEditor(e), ~e.editing
  PROVE  IsEditor(AddHeader(e))
<1> DEFINE at == IF e.cursor = 0 THEN Len(e.headers)
                 ELSE IF e.cursor > Len(e.headers) THEN Len(e.headers) ELSE e.cursor - 1
           blank == <<Blank, Blank>>
           headers == InsertAt(e.headers, at + 1, blank)
           d == [e EXCEPT !.headers = headers, !.cursor = 2 + at, !.key = TRUE]
<1>1. AddHeader(e) = StartEdit(d)
  BY Zenon DEF AddHeader
<1>2. at \in 0 .. Len(e.headers) /\ Len(e.headers) \in Nat
  <2>1. Len(e.headers) \in Nat /\ e.cursor \in Nat
    BY Rows, RowNumbers DEF IsEditor
  <2> QED BY <2>1
<1> HIDE DEF at, blank
<1>3. Sequence(headers) /\ Len(headers) = Len(e.headers) + 1
  BY <1>2, Inserted DEF IsEditor
<1> HIDE DEF headers
<1>4. /\ DOMAIN d = DOMAIN e /\ d.headers = headers /\ d.body = e.body /\ d.input = e.input
      /\ d.form = e.form /\ d.cursor = 2 + at /\ d.editing = e.editing
  BY DEF IsEditor, EditorFields
<1> HIDE DEF d
<1>5. d.cursor \in 0 .. RowCount(d) - 1
  <2>1. /\ BodyRow(d) = 2 + Len(headers) /\ BodyRow(d) \in Nat /\ Len(e.form) \in Nat
        /\ e.form = <<>> => RowCount(d) = BodyRow(d) + 1
        /\ e.form # <<>> => RowCount(d) = BodyRow(d) + Len(e.form)
    BY <1>3, <1>4, RowNumbers DEF IsEditor
  <2>2. RowCount(d) \in Nat /\ RowCount(d) >= BodyRow(d)
    <3>1. CASE e.form = <<>>
      BY <1>2, <1>3, <2>1, <3>1
    <3>2. CASE e.form # <<>>
      <4>1. \A a, b \in Nat : a + b \in Nat /\ a + b >= a
        OBVIOUS
      <4>2. RowCount(d) = BodyRow(d) + Len(e.form)
        BY <2>1, <3>2, Zenon
      <4> QED BY <2>1, <4>1, <4>2
    <3> QED BY <3>1, <3>2
  <2> QED BY <1>2, <1>3, <1>4, <2>1, <2>2
<1>6. IsEditor(d)
  BY <1>3, <1>4, <1>5, EditorWith DEF IsEditor
<1> QED BY <1>1, <1>6, StartedEditor

\* A form with a field more or less is one.
LEMMA EditedForm ==
  ASSUME NEW form, IsForm(form)
  PROVE  /\ \A i \in 1 .. Len(form) + 1 : \A x : IsField(x) =>
              IsForm(InsertAt(form, i, x)) /\ Len(InsertAt(form, i, x)) = Len(form) + 1
         /\ \A i \in DOMAIN form :
              IsForm(RemoveAt(form, i)) /\ Len(RemoveAt(form, i)) = Len(form) - 1
         /\ \A i, x : IsField(x) => IsForm([form EXCEPT ![i] = x])
                                    /\ Len([form EXCEPT ![i] = x]) = Len(form)
<1>0. Sequence(form) /\ \A i \in DOMAIN form : IsField(form[i])
  BY DEF IsForm
<1>1. ASSUME NEW i \in 1 .. Len(form) + 1, NEW x, IsField(x)
      PROVE  IsForm(InsertAt(form, i, x)) /\ Len(InsertAt(form, i, x)) = Len(form) + 1
  BY <1>0, <1>1, Inserted DEF IsForm
<1>2. ASSUME NEW i \in DOMAIN form
      PROVE  IsForm(RemoveAt(form, i)) /\ Len(RemoveAt(form, i)) = Len(form) - 1
  BY <1>0, Removed DEF IsForm
<1>3. ASSUME NEW i, NEW x, IsField(x)
      PROVE  IsForm([form EXCEPT ![i] = x]) /\ Len([form EXCEPT ![i] = x]) = Len(form)
  <2> DEFINE t == [form EXCEPT ![i] = x]
  <2>1. Sequence(t) /\ Len(t) = Len(form) /\ DOMAIN t = DOMAIN form
    BY <1>0, Changed
  <2>2. \A j \in DOMAIN form : t[j] = form[j] \/ t[j] = x
    OBVIOUS
  <2> HIDE DEF t
  <2>3. IsForm(t)
    BY <1>0, <1>3, <2>1, <2>2 DEF IsForm
  <2> QED BY <2>1, <2>3 DEF t
<1> QED BY <1>1, <1>2, <1>3

LEMMA AddedField ==
  ASSUME NEW e, IsEditor(e), ~e.editing, InForm(e)
  PROVE  IsEditor(AddField(e))
<1> DEFINE below == e.cursor - BodyRow(e) + 1
           at == IF below > Len(e.form) THEN Len(e.form) ELSE below
           blank == <<Blank, <<Blank>> >>
           form == InsertAt(e.form, at + 1, blank)
           d == [e EXCEPT !.form = form, !.cursor = BodyRow(e) + at, !.key = TRUE]
<1>1. AddField(e) = StartEdit(d)
  BY Zenon DEF AddField
<1>2. at \in 0 .. Len(e.form) /\ Len(e.form) \in Nat /\ BodyRow(e) \in Nat
  <2>1. Len(e.form) \in Nat /\ e.cursor \in Nat /\ BodyRow(e) \in Nat /\ e.cursor >= BodyRow(e)
    BY Rows, RowNumbers DEF IsEditor, InForm
  <2> QED BY <2>1
<1>3. IsField(blank)
  <2>1. Blank \in DOMAIN Disposition
    BY EditorAssumption
  <2>2. IsValue(<<Blank>>)
    BY OneElement DEF IsValue
  <2> QED BY <2>1, <2>2 DEF IsField
<1> HIDE DEF at, blank
<1>4. IsForm(form) /\ Len(form) = Len(e.form) + 1
  <2>1. IsForm(e.form) /\ at + 1 \in 1 .. Len(e.form) + 1
    BY <1>2 DEF IsEditor
  <2> QED BY <1>3, <2>1, EditedForm
<1> HIDE DEF form
<1>5. /\ DOMAIN d = DOMAIN e /\ d.headers = e.headers /\ d.body = e.body /\ d.input = e.input
      /\ d.form = form /\ d.cursor = BodyRow(e) + at /\ d.editing = e.editing
  BY DEF IsEditor, EditorFields
<1> HIDE DEF d
<1>6. d.cursor \in 0 .. RowCount(d) - 1
  <2>1. BodyRow(d) = BodyRow(e) /\ form # <<>>
    <3>1. Len(<<>>) = 0
      OBVIOUS
    <3> QED BY <1>2, <1>4, <1>5, <3>1 DEF BodyRow
  <2>2. RowCount(d) = BodyRow(e) + Len(form)
    BY <1>4, <1>5, <2>1, RowNumbers DEF IsEditor
  <2> QED BY <1>2, <1>4, <1>5, <2>2
<1>7. IsEditor(d)
  BY <1>4, <1>5, <1>6, EditorWith DEF IsEditor
<1> QED BY <1>1, <1>7, StartedEditor

\* A cursor that is brought back into range.
LEMMA BroughtBack ==
  ASSUME NEW e, IsEditor(e), ~e.editing, NEW d, DOMAIN d = DOMAIN e,
         Sequence(d.headers), Sequence(d.body), Sequence(d.input), IsForm(d.form),
         d.cursor \in Nat, ~d.editing
  PROVE  IsEditor(InRange(d))
<1>1. RowCount(d) \in Nat \ {0}
  BY RowNumbers
<1>2. CASE d.cursor >= RowCount(d)
  <2> DEFINE c == [d EXCEPT !.cursor = RowCount(d) - 1]
  <2>1. /\ DOMAIN c = DOMAIN e /\ c.headers = d.headers /\ c.body = d.body
        /\ c.input = d.input /\ c.form = d.form /\ c.cursor = RowCount(d) - 1
        /\ c.editing = d.editing
    BY DEF IsEditor, EditorFields
  <2>2. InRange(d) = c
    BY <1>2 DEF InRange
  <2> HIDE DEF c
  <2>3. RowCount(c) = RowCount(d)
    BY <2>1 DEF RowCount, BodyRow
  <2>4. c.cursor \in 0 .. RowCount(c) - 1
    BY <1>1, <2>1, <2>3
  <2> QED BY <2>1, <2>2, <2>4, EditorWith
<1>3. CASE ~(d.cursor >= RowCount(d))
  <2>1. InRange(d) = d
    BY <1>3 DEF InRange
  <2>2. d.cursor \in 0 .. RowCount(d) - 1
    BY <1>1, <1>3
  <2> QED BY <2>1, <2>2, EditorWith
<1> QED BY <1>2, <1>3

LEMMA DeletedRow ==
  ASSUME NEW e, IsEditor(e), ~e.editing
  PROVE  IsEditor(DeleteRow(e))
<1>0. /\ DOMAIN e = EditorFields /\ e.cursor \in Nat
      /\ Sequence(e.headers) /\ Sequence(e.body) /\ Sequence(e.input) /\ IsForm(e.form)
  BY Rows DEF IsEditor
<1>1. CASE OnField(e)
  <2> DEFINE form == RemoveAt(e.form, Field(e))
             d == [e EXCEPT !.form = form]
  <2>1. Field(e) \in DOMAIN e.form
    <3>1. /\ Len(e.form) \in Nat /\ DOMAIN e.form = 1 .. Len(e.form) /\ BodyRow(e) \in Nat
      BY <1>0, RowNumbers
    <3>2. /\ e.cursor >= BodyRow(e) /\ e.cursor - BodyRow(e) < Len(e.form)
          /\ Field(e) = 1 + e.cursor - BodyRow(e)
      BY <1>1 DEF OnField, InForm, Field
    <3> QED BY <1>0, <3>1, <3>2
  <2>2. IsForm(form)
    BY <1>0, <2>1, EditedForm
  <2>3. DeleteRow(e) = InRange(d)
    <3>1. ~OnHeader(e)
      BY <1>0, <1>1, RowNumbers DEF OnHeader, OnField, InForm
    <3> QED BY <1>1, <3>1, Zenon DEF DeleteRow
  <2> HIDE DEF form
  <2>4. /\ DOMAIN d = DOMAIN e /\ d.headers = e.headers /\ d.body = e.body
        /\ d.input = e.input /\ d.form = form /\ d.cursor = e.cursor /\ d.editing = e.editing
    BY <1>0 DEF EditorFields
  <2> HIDE DEF d
  <2> QED BY <1>0, <2>2, <2>3, <2>4, BroughtBack
<1>2. CASE ~OnField(e) /\ OnHeader(e)
  <2> DEFINE headers == RemoveAt(e.headers, Header(e))
             d == [e EXCEPT !.headers = headers]
  <2>1. Header(e) \in DOMAIN e.headers
    BY <1>0, <1>2, RowNumbers DEF OnHeader, Header
  <2>2. Sequence(headers)
    BY <1>0, <2>1, Removed
  <2>3. DeleteRow(e) = InRange(d)
    BY <1>2, Zenon DEF DeleteRow
  <2> HIDE DEF headers
  <2>4. /\ DOMAIN d = DOMAIN e /\ d.headers = headers /\ d.body = e.body
        /\ d.input = e.input /\ d.form = e.form /\ d.cursor = e.cursor /\ d.editing = e.editing
    BY <1>0 DEF EditorFields
  <2> HIDE DEF d
  <2> QED BY <1>0, <2>2, <2>3, <2>4, BroughtBack
<1>3. CASE ~OnField(e) /\ ~OnHeader(e)
  <2>1. DeleteRow(e) = e
    BY <1>3, Zenon DEF DeleteRow
  <2> QED BY <2>1
<1> QED BY <1>1, <1>2, <1>3

\* A text is confirmed or given up.
LEMMA EndedEditor ==
  ASSUME NEW g, DOMAIN g = EditorFields, Sequence(g.headers), Sequence(g.body),
         IsForm(g.form), g.cursor \in 0 .. RowCount(g) - 1
  PROVE  IsEditor(Ended(g)) /\ IsEditor([Ended(g) EXCEPT !.key = TRUE])
<1> DEFINE d == Ended(g)
           c == [d EXCEPT !.key = TRUE]
<1>1. /\ DOMAIN d = EditorFields /\ d.headers = g.headers /\ d.body = g.body
      /\ d.input = <<Blank>> /\ d.form = g.form /\ d.cursor = g.cursor /\ d.editing = FALSE
  BY DEF Ended, EditorFields
<1> HIDE DEF d
<1>2. /\ DOMAIN c = EditorFields /\ c.headers = g.headers /\ c.body = g.body
      /\ c.input = <<Blank>> /\ c.form = g.form /\ c.cursor = g.cursor /\ c.editing = FALSE
  BY <1>1 DEF EditorFields
<1> HIDE DEF c
<1>3. RowCount(d) = RowCount(g) /\ RowCount(c) = RowCount(g)
  BY <1>1, <1>2 DEF RowCount, BodyRow
<1>4. Sequence(<<Blank>>)
  BY OneElement
<1>5. IsEditor(d) /\ IsEditor(c)
  BY <1>1, <1>2, <1>3, <1>4 DEF IsEditor, FitsField
<1> QED BY <1>5 DEF c, d

LEMMA CancelledEdit ==
  ASSUME NEW e, IsEditor(e)
  PROVE  IsEditor(CancelEdit(e))
BY EndedEditor DEF IsEditor, CancelEdit

\* A text has been typed.
LEMMA TypedText ==
  ASSUME NEW e, IsEditor(e), NEW t \in Typed
  PROVE  IsEditor([e EXCEPT !.input = <<t>>])
<1> DEFINE input == <<t>>
           d == [e EXCEPT !.input = input]
<1>1. Sequence(input) /\ IsValue(input) /\ \E n \in DOMAIN Disposition : input = <<n>>
  BY OneElement, EditorAssumption DEF IsValue
<1> HIDE DEF input
<1>2. /\ DOMAIN d = EditorFields /\ d.headers = e.headers /\ d.body = e.body
      /\ d.input = input /\ d.form = e.form /\ d.cursor = e.cursor
  BY DEF IsEditor, EditorFields
<1> HIDE DEF d
<1>3. RowCount(d) = RowCount(e) /\ FitsField(d)
  BY <1>1, <1>2 DEF RowCount, BodyRow, FitsField
<1>4. IsEditor(d)
  BY <1>1, <1>2, <1>3 DEF IsEditor
<1> QED BY <1>4 DEF d, input

\* The name of a header is followed by its value.
LEMMA ConfirmedHeader ==
  ASSUME NEW e, IsEditor(e), OnHeader(e), NEW text
  PROVE  LET next == [e EXCEPT !.key = FALSE]
         IN /\ IsEditor([next EXCEPT !.headers[Header(e)][1] = text, !.input = Cell(next)])
            /\ IsEditor(Ended([e EXCEPT !.headers[Header(e)][2] = text, !.key = TRUE]))
<1> DEFINE next == [e EXCEPT !.key = FALSE]
           row == [e.headers[Header(e)] EXCEPT ![1] = text]
           headers == [e.headers EXCEPT ![Header(e)] = row]
           cell == Cell(next)
           d == [next EXCEPT !.headers[Header(e)][1] = text, !.input = cell]
           pair == [e.headers[Header(e)] EXCEPT ![2] = text]
           pairs == [e.headers EXCEPT ![Header(e)] = pair]
           g == [e EXCEPT !.headers[Header(e)][2] = text, !.key = TRUE]
<1>0. /\ DOMAIN e = EditorFields /\ e.cursor \in Nat
      /\ Sequence(e.headers) /\ Sequence(e.body) /\ Sequence(e.input) /\ IsForm(e.form)
      /\ e.cursor \in 0 .. RowCount(e) - 1
  BY Rows DEF IsEditor
<1>1. /\ DOMAIN next = EditorFields /\ next.headers = e.headers /\ next.body = e.body
      /\ next.input = e.input /\ next.form = e.form /\ next.cursor = e.cursor
  BY <1>0 DEF EditorFields
<1>2. Sequence(cell)
  <2> HIDE DEF next
  <2> QED BY <1>0, <1>1, CellFits
<1>3. Sequence(headers) /\ Len(headers) = Len(e.headers)
  <2> HIDE DEF row
  <2> QED BY <1>0, Changed
<1>4. Sequence(pairs) /\ Len(pairs) = Len(e.headers)
  <2> HIDE DEF pair
  <2> QED BY <1>0, Changed
<1>5. /\ DOMAIN d = EditorFields /\ d.headers = headers /\ d.body = e.body
      /\ d.input = cell /\ d.form = e.form /\ d.cursor = e.cursor
  <2> HIDE DEF cell
  <2> QED BY <1>0 DEF EditorFields
<1>6. /\ DOMAIN g = EditorFields /\ g.headers = pairs /\ g.body = e.body
      /\ g.form = e.form /\ g.cursor = e.cursor
  BY <1>0 DEF EditorFields
<1> HIDE DEF cell, headers, pairs, d, g
<1>7. RowCount(d) = RowCount(e) /\ RowCount(g) = RowCount(e) /\ BodyRow(d) = BodyRow(e)
  BY <1>3, <1>4, <1>5, <1>6 DEF RowCount, BodyRow
<1>8. ~OnField(d)
  BY <1>0, <1>5, <1>7, RowNumbers DEF OnField, InForm, OnHeader
<1>9. IsEditor(d)
  BY <1>0, <1>2, <1>3, <1>5, <1>7, <1>8 DEF IsEditor, FitsField
<1>10. IsEditor(Ended(g))
  BY <1>0, <1>4, <1>6, <1>7, EndedEditor
<1> QED BY <1>9, <1>10 DEF d, g, cell

\* The name of a field is followed by its value.
LEMMA ConfirmedField ==
  ASSUME NEW e, IsEditor(e), OnField(e)
  PROVE  LET next == [e EXCEPT !.key = FALSE]
         IN /\ Head(e.input) \in DOMAIN Disposition =>
                 IsEditor([next EXCEPT !.form[Field(e)][1] = Head(e.input),
                                       !.input = Cell(next)])
            /\ IsValue(e.input) =>
                 IsEditor(Ended([e EXCEPT !.form[Field(e)][2] = e.input, !.key = TRUE]))
<1> DEFINE i == Field(e)
           text == Head(e.input)
           next == [e EXCEPT !.key = FALSE]
           row == [e.form[i] EXCEPT ![1] = text]
           form == [e.form EXCEPT ![i] = row]
           cell == Cell(next)
           d == [next EXCEPT !.form[i][1] = text, !.input = cell]
           pair == [e.form[i] EXCEPT ![2] = e.input]
           pairs == [e.form EXCEPT ![i] = pair]
           g == [e EXCEPT !.form[i][2] = e.input, !.key = TRUE]
<1>0. /\ DOMAIN e = EditorFields /\ e.cursor \in Nat
      /\ Sequence(e.headers) /\ Sequence(e.body) /\ Sequence(e.input) /\ IsForm(e.form)
      /\ e.cursor \in 0 .. RowCount(e) - 1
  BY Rows DEF IsEditor
<1>1. /\ DOMAIN next = EditorFields /\ next.headers = e.headers /\ next.body = e.body
      /\ next.input = e.input /\ next.form = e.form /\ next.cursor = e.cursor
      /\ next.key = FALSE /\ next.multipart = e.multipart
  BY <1>0 DEF EditorFields
<1>2. i \in DOMAIN e.form /\ IsField(e.form[i])
  <2>1. /\ Len(e.form) \in Nat /\ DOMAIN e.form = 1 .. Len(e.form) /\ BodyRow(e) \in Nat
    BY <1>0, RowNumbers
  <2>2. e.cursor >= BodyRow(e) /\ e.cursor - BodyRow(e) < Len(e.form)
    BY DEF OnField, InForm
  <2>3. i = 1 + e.cursor - BodyRow(e)
    BY DEF Field
  <2> HIDE DEF i
  <2>4. i \in DOMAIN e.form
    BY <1>0, <2>1, <2>2, <2>3
  <2> QED BY <1>0, <2>4 DEF IsForm
<1>3. Sequence(cell) /\ IsValue(cell)
  <2>1. OnField(next)
    BY <1>1 DEF OnField, InForm, BodyRow
  <2> HIDE DEF next
  <2> QED BY <1>0, <1>1, <2>1, CellFits
<1>4. row = <<text, e.form[i][2]>> /\ pair = <<e.form[i][1], e.input>>
  <2> DEFINE a == e.form[i][1]
             b == e.form[i][2]
             input == e.input
  <2>1. e.form[i] = <<a, b>>
    BY <1>2 DEF IsField
  <2> HIDE DEF a, b, i, text, input
  <2>2. row = <<text, b>>
    BY <2>1
  <2>3. pair = <<a, input>>
    BY <2>1 DEF input
  <2> QED BY <2>2, <2>3 DEF a, b, input
<1>5. /\ text \in DOMAIN Disposition => IsField(row)
      /\ IsValue(e.input) => IsField(pair)
  BY <1>2, <1>4 DEF IsField
<1>6. /\ DOMAIN d = EditorFields /\ d.headers = e.headers /\ d.body = e.body
      /\ d.input = cell /\ d.form = form /\ d.cursor = e.cursor /\ d.key = FALSE
  <2> HIDE DEF cell, i, text
  <2> QED BY <1>0 DEF EditorFields
<1>7. /\ DOMAIN g = EditorFields /\ g.headers = e.headers /\ g.body = e.body
      /\ g.form = pairs /\ g.cursor = e.cursor
  <2> HIDE DEF i
  <2> QED BY <1>0 DEF EditorFields
<1> HIDE DEF d, g, cell, row, pair, i
<1>8. ASSUME text \in DOMAIN Disposition PROVE IsEditor(d)
  <2> HIDE DEF text
  <2>1. IsForm(form) /\ Len(form) = Len(e.form)
    BY <1>0, <1>5, <1>8, EditedForm
  <2>2. form = <<>> <=> e.form = <<>>
    BY <1>2
  <2> HIDE DEF form
  <2>3. RowCount(d) = RowCount(e)
    BY <1>6, <2>1, <2>2 DEF RowCount, BodyRow
  <2> QED BY <1>0, <1>3, <1>6, <2>1, <2>3 DEF IsEditor, FitsField
<1>9. ASSUME IsValue(e.input) PROVE IsEditor(Ended(g))
  <2>1. IsForm(pairs) /\ Len(pairs) = Len(e.form)
    BY <1>0, <1>5, <1>9, EditedForm
  <2>2. pairs = <<>> <=> e.form = <<>>
    BY <1>2
  <2> HIDE DEF pairs
  <2>3. RowCount(g) = RowCount(e)
    BY <1>7, <2>1, <2>2 DEF RowCount, BodyRow
  <2> QED BY <1>0, <1>7, <2>1, <2>3, EndedEditor
<1> QED BY <1>8, <1>9 DEF d, g, cell, i

LEMMA ConfirmedEdit ==
  ASSUME NEW e, IsEditor(e), e.editing
  PROVE  IsEditor(ConfirmEdit(e))
<1> DEFINE text == Head(e.input)
           next == [e EXCEPT !.key = FALSE]
<1>0. /\ DOMAIN e = EditorFields /\ e.cursor \in Nat
      /\ Sequence(e.headers) /\ Sequence(e.body) /\ Sequence(e.input) /\ IsForm(e.form)
      /\ e.cursor \in 0 .. RowCount(e) - 1 /\ FitsField(e)
  BY Rows DEF IsEditor
<1>7. /\ OnHeader(e) => e.cursor # 0 /\ e.cursor # 1
      /\ OnField(e) => e.cursor # 0 /\ e.cursor # 1 /\ ~OnHeader(e)
  BY <1>0, RowNumbers DEF OnHeader, OnField, InForm
<1>1. CASE e.cursor = 0 \/ e.cursor = 1
  <2> DEFINE g == [e EXCEPT !.method = text]
             h == [e EXCEPT !.url = text]
  <2>1. ConfirmEdit(e) = Ended(g) \/ ConfirmEdit(e) = Ended(h)
    <3>1. e.cursor = 0 => e.cursor # 1
      OBVIOUS
    <3>2. ~OnHeader(e) /\ ~OnField(e)
      BY <1>1, <1>7
    <3>3. CASE e.cursor = 0
      BY <3>1, <3>2, <3>3, Zenon DEF ConfirmEdit
    <3>4. CASE e.cursor = 1
      <4>1. e.cursor # 0
        BY <3>4
      <4> QED BY <3>2, <3>4, <4>1, Zenon DEF ConfirmEdit
    <3> QED BY <1>1, <3>3, <3>4
  <2>2. /\ DOMAIN g = EditorFields /\ g.headers = e.headers /\ g.body = e.body
        /\ g.form = e.form /\ g.cursor = e.cursor
        /\ DOMAIN h = EditorFields /\ h.headers = e.headers /\ h.body = e.body
        /\ h.form = e.form /\ h.cursor = e.cursor
    BY <1>0 DEF EditorFields
  <2> HIDE DEF g, h
  <2>3. RowCount(g) = RowCount(e) /\ RowCount(h) = RowCount(e)
    BY <2>2 DEF RowCount, BodyRow
  <2> QED BY <1>0, <2>1, <2>2, <2>3, EndedEditor
<1>2. CASE OnHeader(e)
  <2>1. \/ ConfirmEdit(e) = [next EXCEPT !.headers[Header(e)][1] = text, !.input = Cell(next)]
        \/ ConfirmEdit(e) = Ended([e EXCEPT !.headers[Header(e)][2] = text, !.key = TRUE])
    BY <1>2, <1>7, Zenon DEF ConfirmEdit
  <2>2. /\ IsEditor([next EXCEPT !.headers[Header(e)][1] = text, !.input = Cell(next)])
        /\ IsEditor(Ended([e EXCEPT !.headers[Header(e)][2] = text, !.key = TRUE]))
    BY <1>2, ConfirmedHeader, Zenon
  <2> QED BY <2>1, <2>2, Zenon
<1>3. CASE OnField(e) /\ e.key
  <2>1. ConfirmEdit(e) = [next EXCEPT !.form[Field(e)][1] = Head(e.input), !.input = Cell(next)]
    BY <1>3, <1>7, Zenon DEF ConfirmEdit
  <2>2. Head(e.input) \in DOMAIN Disposition
    BY <1>0, <1>3, OneElement DEF FitsField
  <2>3. IsEditor([next EXCEPT !.form[Field(e)][1] = Head(e.input), !.input = Cell(next)])
    BY <1>3, <2>2, ConfirmedField, Zenon
  <2> QED BY <2>1, <2>3, Zenon
<1>4. CASE OnField(e) /\ ~e.key
  <2>1. ConfirmEdit(e) = Ended([e EXCEPT !.form[Field(e)][2] = e.input, !.key = TRUE])
    BY <1>4, <1>7, Zenon DEF ConfirmEdit
  <2>2. IsValue(e.input)
    BY <1>0, <1>4 DEF FitsField
  <2>3. IsEditor(Ended([e EXCEPT !.form[Field(e)][2] = e.input, !.key = TRUE]))
    BY <1>4, <2>2, ConfirmedField, Zenon
  <2> QED BY <2>1, <2>3, Zenon
<1>5. CASE e.cursor # 0 /\ e.cursor # 1 /\ ~OnHeader(e) /\ ~OnField(e)
  <2> DEFINE g == [e EXCEPT !.body = e.input]
  <2>1. ConfirmEdit(e) = Ended(g)
    BY <1>5, Zenon DEF ConfirmEdit
  <2>2. /\ DOMAIN g = EditorFields /\ g.headers = e.headers /\ g.body = e.input
        /\ g.form = e.form /\ g.cursor = e.cursor
    BY <1>0 DEF EditorFields
  <2> HIDE DEF g
  <2>3. RowCount(g) = RowCount(e)
    BY <2>2 DEF RowCount, BodyRow
  <2> QED BY <1>0, <2>1, <2>2, <2>3, EndedEditor
<1> QED BY <1>1, <1>2, <1>3, <1>4, <1>5

\* What a test's request is from then on.
LEMMA SavedRequest ==
  ASSUME NEW e, IsEditor(e)
  PROVE  Sequence(Saved(e).headers) /\ Sequence(Saved(e).body)
<1>1. Sequence(e.body) /\ Sequence(Serialized(e.form)) /\ Sequence(<<Blank>>)
  BY SerializedIsSequence, OneElement DEF IsEditor
<1>2. Saved(e).headers = e.headers /\ Saved(e).body \in {e.body, Serialized(e.form), <<Blank>>}
  BY DEF Saved
<1> QED BY <1>1, <1>2 DEF IsEditor

-----------------------------------------------------------------------------
(* The overlays.                                                           *)

OverlayInv ==
  /\ DOMAIN browser = {"at", "cursor"}
  /\ browser.at \in DOMAIN DirectoryOf
  /\ Entries # <<>> => browser.cursor \in 0 .. Len(Entries) - 1
  /\ IsEditor(editor)
  /\ IsTable(params)

\* Overlays that are closed.
LEMMA ClosedOverlays ==
  /\ CloseOverlays => OverlayInv'
  /\ browser = NoBrowser /\ editor = NoEditor /\ params = NoParams => OverlayInv
<1>1. NoBrowser.at \in DOMAIN DirectoryOf /\ NoBrowser.cursor = 0
      /\ DOMAIN NoBrowser = {"at", "cursor"}
  <2>1. NoBrowser.at = CHOOSE d \in DOMAIN DirectoryOf : TRUE
    BY DEF NoBrowser
  <2>2. \E d \in DOMAIN DirectoryOf : TRUE
    BY SessionAssumption
  <2>3. NoBrowser.at \in DOMAIN DirectoryOf
    BY <2>1, <2>2
  <2> QED BY <2>3 DEF NoBrowser
<1>2. DirectoryOf[NoBrowser.at] # <<>> => 0 \in 0 .. Len(DirectoryOf[NoBrowser.at]) - 1
  <2>1. DirectoryOf[NoBrowser.at] \in Seq(Range(DirectoryOf[NoBrowser.at]))
    BY <1>1, SessionAssumption
  <2> HIDE DEF NoBrowser
  <2> QED BY <2>1
<1>3. IsEditor(NoEditor)
  <2>1. Sequence(<<>>) /\ Sequence(<<Blank>>)
    BY EmptySequence, OneElement
  <2> QED BY <2>1, OpenedEditor DEF NoEditor
<1>4. IsTable(NoParams)
  BY NewTable DEF NoParams
<1> HIDE DEF NoBrowser, NoEditor, NoParams
<1>5. CloseOverlays => OverlayInv'
  BY <1>1, <1>2, <1>3, <1>4 DEF CloseOverlays, OverlayInv, Entries
<1>6. browser = NoBrowser /\ editor = NoEditor /\ params = NoParams => OverlayInv
  BY <1>1, <1>2, <1>3, <1>4 DEF OverlayInv, Entries
<1> QED BY <1>5, <1>6

LEMMA SameOverlays ==
  ASSUME OverlayInv, UNCHANGED <<browser, editor, params>>
  PROVE  OverlayInv'
BY DEF OverlayInv, Entries

\* A cursor at the top of a directory.
LEMMA DirectoryTop ==
  ASSUME OverlayInv, NEW d \in DOMAIN DirectoryOf, browser' = [at |-> d, cursor |-> 0],
         UNCHANGED <<editor, params>>
  PROVE  OverlayInv'
<1>1. DirectoryOf[d] # <<>> => 0 \in 0 .. Len(DirectoryOf[d]) - 1
  <2>1. DirectoryOf[d] \in Seq(Range(DirectoryOf[d]))
    BY SessionAssumption
  <2> QED BY <2>1
<1>2. browser'.at = d /\ browser'.cursor = 0 /\ DOMAIN browser' = {"at", "cursor"}
  OBVIOUS
<1> QED BY <1>1, <1>2 DEF OverlayInv, Entries

LEMMA BrowserKeys ==
  ASSUME OverlayInv, \/ BrowserMoves(browser.cursor - 1) \/ BrowserMoves(browser.cursor + 1)
                     \/ ChangeDirectory \/ OpenBrowser
  PROVE  OverlayInv'
<1>1. ASSUME NEW c, BrowserMoves(c) PROVE OverlayInv'
  <2>1. /\ c \in 0 .. Len(Entries) - 1 /\ UNCHANGED <<editor, params>>
        /\ browser' = [browser EXCEPT !.cursor = c]
    BY <1>1 DEF BrowserMoves
  <2>2. /\ DOMAIN browser' = {"at", "cursor"} /\ browser'.at = browser.at
        /\ browser'.cursor = c
    BY <2>1 DEF OverlayInv
  <2> QED BY <2>1, <2>2 DEF OverlayInv, Entries
<1>2. CASE ChangeDirectory
  <2>1. PICK i \in DOMAIN Entries : /\ Entries[i][1] \in {"parent", "dir"}
                                    /\ browser' = [at |-> Entries[i][2], cursor |-> 0]
    BY <1>2 DEF ChangeDirectory
  <2>2. UNCHANGED <<editor, params>>
    BY <1>2 DEF ChangeDirectory
  <2>3. Entries[i] \in Range(Entries)
    BY DEF Range
  <2>4. Entries[i][2] \in DOMAIN DirectoryOf
    BY <2>1, <2>3, SessionAssumption DEF OverlayInv, Entries
  <2> QED BY <2>1, <2>2, <2>4, DirectoryTop
<1>3. CASE OpenBrowser
  <2>1. browser' \in [at : DOMAIN DirectoryOf, cursor : {0}] /\ UNCHANGED <<editor, params>>
    BY <1>3 DEF OpenBrowser
  <2>2. \E d \in DOMAIN DirectoryOf : browser' = [at |-> d, cursor |-> 0]
    BY <2>1
  <2> QED BY <2>1, <2>2, DirectoryTop
<1> QED BY <1>1, <1>2, <1>3

LEMMA EditorKeys ==
  ASSUME OverlayInv, MoveInRequest \/ EditRow \/ EditText
  PROVE  OverlayInv'
<1>0. IsEditor(editor)
  BY DEF OverlayInv
<1>1. ASSUME NEW new, Edit(new), IsEditor(new) PROVE OverlayInv'
  BY <1>1 DEF OverlayInv, Entries, Edit
<1>2. CASE MoveInRequest
  <2>1. ~editor.editing /\ \E new \in {Up(editor), Down(editor), SwitchColumn(editor)} : Edit(new)
    BY <1>2 DEF MoveInRequest
  <2> QED BY <1>0, <1>1, <2>1, MoveInEditor
<1>3. CASE EditRow
  <2>1. ~editor.editing
        /\ \E new \in {StartEdit(editor), AddRow(editor), DeleteRow(editor)} : Edit(new)
    BY <1>3 DEF EditRow
  <2>2. IsEditor(StartEdit(editor)) /\ IsEditor(DeleteRow(editor))
    BY <1>0, <2>1, StartedEditor, DeletedRow
  <2>3. IsEditor(AddRow(editor))
    BY <1>0, <2>1, AddedField, AddedHeader DEF AddRow
  <2> QED BY <1>1, <2>1, <2>2, <2>3
<1>4. CASE EditText
  <2>1. editor.editing
        /\ \E new \in {ConfirmEdit([editor EXCEPT !.input = <<t>>]) : t \in Typed}
                      \cup {ConfirmEdit(editor), CancelEdit(editor)} : Edit(new)
    BY <1>4, Zenon DEF EditText
  <2>2. ASSUME NEW t \in Typed
        PROVE  IsEditor(ConfirmEdit([editor EXCEPT !.input = <<t>>]))
    <3> DEFINE d == [editor EXCEPT !.input = <<t>>]
    <3>1. IsEditor(d)
      BY <1>0, TypedText
    <3>2. d.editing
      BY <1>0, <2>1 DEF IsEditor, EditorFields
    <3> HIDE DEF d
    <3>3. IsEditor(ConfirmEdit(d))
      BY <3>1, <3>2, ConfirmedEdit
    <3> QED BY <3>3 DEF d
  <2>3. IsEditor(ConfirmEdit(editor)) /\ IsEditor(CancelEdit(editor))
    BY <1>0, <2>1, ConfirmedEdit, CancelledEdit
  <2>4. \/ \E t \in Typed : Edit(ConfirmEdit([editor EXCEPT !.input = <<t>>]))
        \/ Edit(ConfirmEdit(editor)) \/ Edit(CancelEdit(editor))
    BY <2>1, Zenon
  <2> QED BY <1>1, <2>2, <2>3, <2>4, Zenon
<1> QED BY <1>2, <1>3, <1>4

LEMMA ParamsKeys ==
  ASSUME OverlayInv, MoveInParams \/ ParamKey \/ OpenParams
  PROVE  OverlayInv'
<1>0. IsTable(params)
  BY DEF OverlayInv
<1>1. ASSUME NEW new, EditParams(new), IsTable(new) PROVE OverlayInv'
  BY <1>1 DEF OverlayInv, Entries, EditParams
<1>2. CASE MoveInParams
  <2>1. \E new \in {ParamUp(params), ParamDown(params)} : EditParams(new)
    BY <1>2 DEF MoveInParams
  <2> QED BY <1>0, <1>1, <2>1, MoveInTable
<1>3. CASE ParamKey
  <2>1. \E new : /\ EditParams(new)
                 /\ \/ new \in {AddParam(params), DeleteParam(params),
                                EditParam(params, "key"), EditParam(params, "value")}
                    \/ \E t : new = ConfirmParam([params EXCEPT !.input = t])
                    \/ new \in {ConfirmParam(params), CancelParam(params)}
    BY <1>3, Zenon DEF ParamKey
  <2>2. /\ IsTable(AddParam(params)) /\ IsTable(DeleteParam(params))
        /\ IsTable(EditParam(params, "key")) /\ IsTable(EditParam(params, "value"))
        /\ IsTable(ConfirmParam(params)) /\ IsTable(CancelParam(params))
    BY <1>0, MoreParams, FewerParams, EditTable, ConfirmedParam, CloseParam
  <2>3. ASSUME NEW t PROVE IsTable(ConfirmParam([params EXCEPT !.input = t]))
    <3>1. IsTable([params EXCEPT !.input = t])
      BY <1>0, CloseParam
    <3> QED BY <3>1, ConfirmedParam
  <2> QED BY <1>1, <2>1, <2>2, <2>3
<1>4. CASE OpenParams
  <2> DEFINE rows == IF param = Blank THEN <<>> ELSE << <<Name, param>> >>
  <2>1. params' = ParamRows(rows) /\ UNCHANGED <<browser, editor>>
    BY <1>4 DEF OpenParams
  <2>2. rows = <<>> \/ \E x : rows = <<x>>
    OBVIOUS
  <2> HIDE DEF rows
  <2>3. IsTable(params')
    BY <2>1, <2>2, NewTable
  <2> QED BY <2>1, <2>3 DEF OverlayInv, Entries
<1> QED BY <1>2, <1>3, <1>4

-----------------------------------------------------------------------------
(* The tree of tests.                                                      *)

\* c is a with b behind it.
Concatenation(c, a, b) ==
  /\ Sequence(c)
  /\ Len(a) \in Nat /\ DOMAIN a = 1 .. Len(a)
  /\ Len(b) \in Nat /\ DOMAIN b = 1 .. Len(b)
  /\ Len(c) = Len(a) + Len(b) /\ DOMAIN c = 1 .. Len(a) + Len(b)
  /\ \A i \in DOMAIN a : c[i] = a[i]
  /\ \A i \in DOMAIN b : c[Len(a) + i] = b[i]
  /\ \A i \in DOMAIN c : i \in DOMAIN a \/ i - Len(a) \in DOMAIN b

LEMMA JoinedAs ==
  ASSUME NEW a, Sequence(a), NEW b, Sequence(b)
  PROVE  Concatenation(a \o b, a, b)
<1>1. /\ Sequence(a \o b)
      /\ Len(a) \in Nat /\ DOMAIN a = 1 .. Len(a)
      /\ Len(b) \in Nat /\ DOMAIN b = 1 .. Len(b)
      /\ Len(a \o b) = Len(a) + Len(b) /\ DOMAIN (a \o b) = 1 .. Len(a) + Len(b)
      /\ \A i \in DOMAIN a : (a \o b)[i] = a[i]
      /\ \A i \in DOMAIN b : (a \o b)[Len(a) + i] = b[i]
      /\ \A i \in DOMAIN (a \o b) : i \in DOMAIN a \/ i - Len(a) \in DOMAIN b
  BY Joined
<1> QED BY <1>1, Zenon DEF Concatenation

\* The elements of sequences joined are those of the one, then of the other.
LEMMA JoinedElements ==
  ASSUME NEW a, NEW b, NEW c, Concatenation(c, a, b), NEW i \in DOMAIN c
  PROVE  \/ i \in DOMAIN a /\ c[i] = a[i]
         \/ i - Len(a) \in DOMAIN b /\ c[i] = b[i - Len(a)]
<1>1. /\ Len(a) \in Nat /\ DOMAIN c = 1 .. Len(a) + Len(b) /\ Len(b) \in Nat
      /\ \A j \in DOMAIN a : c[j] = a[j]
      /\ \A j \in DOMAIN b : c[Len(a) + j] = b[j]
      /\ i \in DOMAIN a \/ i - Len(a) \in DOMAIN b
  BY DEF Concatenation
<1>2. i \in Int
  BY <1>1
<1>3. CASE i \in DOMAIN a
  BY <1>1, <1>3
<1>4. CASE i - Len(a) \in DOMAIN b
  <2>1. Len(a) + (i - Len(a)) = i
    BY <1>1, <1>2
  <2> QED BY <1>1, <1>4, <2>1
<1> QED BY <1>1, <1>3, <1>4

\* The last test of the folders up to k.
LastTest(fs, k) == IF k = 0 THEN 0 ELSE fs[k].start + fs[k].count

\* Folders of n tests, one behind the other.
AreFolders(fs, n) ==
  /\ Sequence(fs)
  /\ \A k \in DOMAIN fs :
       /\ DOMAIN fs[k] = {"start", "count", "collapsed"}
       /\ fs[k].start = LastTest(fs, k - 1)
       /\ fs[k].start \in Nat /\ fs[k].count \in Nat
  /\ LastTest(fs, Len(fs)) = n

\* The rows of a folder.
Block(fs, f) ==
  (IF Len(fs) > 1 THEN <<FolderItem(f)>> ELSE <<>>)
  \o IF Len(fs) > 1 /\ fs[f].collapsed THEN <<>>
     ELSE [i \in 1 .. fs[f].count |-> TestItem(fs[f].start + i)]

TestsOf(fs, f) == fs[f].start + 1 .. fs[f].start + fs[f].count

Open(fs, f) == Len(fs) = 1 \/ ~fs[f].collapsed

Increasing(t) ==
  \A k, l \in DOMAIN t : t[k][1] = "test" /\ t[l][1] = "test" /\ k < l => t[k][2] < t[l][2]

\* Test i is shown, in a folder up to k.
Shown(fs, i, k) == \E f \in 1 .. k : Open(fs, f) /\ i \in TestsOf(fs, f)

Lists(t, fs, k) ==
  /\ Sequence(t)
  /\ \A j \in DOMAIN t :
       \/ t[j][1] = "test" /\ t[j][2] \in 1 .. LastTest(fs, k) /\ Shown(fs, t[j][2], k)
       \/ t[j][1] = "folder" /\ Len(fs) > 1
  /\ \A i \in Nat : Shown(fs, i, k) => \E j \in DOMAIN t : t[j][1] = "test" /\ t[j][2] = i
  /\ Increasing(t)
  /\ Len(fs) > 1 => Len(t) >= k

LEMMA BlockLaw ==
  ASSUME NEW fs, NEW n, AreFolders(fs, n), NEW f \in DOMAIN fs
  PROVE  LET b == Block(fs, f)
         IN /\ Sequence(b)
            /\ \A j \in DOMAIN b :
                 \/ b[j][1] = "test" /\ b[j][2] \in TestsOf(fs, f) /\ Open(fs, f)
                 \/ b[j][1] = "folder" /\ Len(fs) > 1
            /\ Open(fs, f) =>
                 \A i \in TestsOf(fs, f) : \E j \in DOMAIN b : b[j][1] = "test" /\ b[j][2] = i
            /\ Increasing(b)
            /\ Len(fs) > 1 => Len(b) >= 1
<1> DEFINE b == Block(fs, f)
           top == IF Len(fs) > 1 THEN <<FolderItem(f)>> ELSE <<>>
           below == IF Len(fs) > 1 /\ fs[f].collapsed THEN <<>>
                    ELSE [i \in 1 .. fs[f].count |-> TestItem(fs[f].start + i)]
           start == fs[f].start
           count == fs[f].count
<1>1. /\ start \in Nat /\ count \in Nat
      /\ Len(fs) \in Nat /\ (Len(fs) > 1 \/ Len(fs) = 1)
  <2>1. start \in Nat /\ count \in Nat
    BY DEF AreFolders
  <2>2. Len(fs) \in Nat /\ f \in 1 .. Len(fs)
    BY DEF AreFolders, Sequence
  <2> HIDE DEF start, count
  <2>3. Len(fs) > 1 \/ Len(fs) = 1
    <3>1. \A m \in Nat : \A i \in 1 .. m : m > 1 \/ m = 1
      OBVIOUS
    <3> QED BY <2>2, <3>1, Zenon
  <2> QED BY <2>1, <2>2, <2>3, Zenon
<1>2. b = top \o below
  BY DEF Block
<1>3. /\ Sequence(top) /\ DOMAIN top \subseteq {1}
      /\ \A j \in DOMAIN top : top[j][1] = "folder" /\ Len(fs) > 1
      /\ Len(fs) > 1 => Len(top) = 1
  <2>1. CASE Len(fs) > 1
    <3>1. top = <<FolderItem(f)>>
      BY <2>1
    <3> HIDE DEF top
    <3> QED BY <2>1, <3>1, OneElement DEF FolderItem
  <2>2. CASE ~(Len(fs) > 1)
    <3>1. top = <<>> /\ DOMAIN <<>> = {}
      BY <2>2
    <3> HIDE DEF top
    <3> QED BY <2>2, <3>1, EmptySequence
  <2> QED BY <2>1, <2>2
<1>4. /\ Sequence(below)
      /\ \A j \in DOMAIN below :
           /\ below[j][1] = "test" /\ below[j][2] = start + j /\ j \in 1 .. count
           /\ Open(fs, f)
      /\ Open(fs, f) => DOMAIN below = 1 .. count
  <2>1. CASE Len(fs) > 1 /\ fs[f].collapsed
    <3>1. below = <<>> /\ DOMAIN <<>> = {}
      BY <2>1
    <3>2. ~Open(fs, f)
      <4>1. Len(fs) # 1
        <5>1. \A m \in Nat : m > 1 => m # 1
          OBVIOUS
        <5> QED BY <1>1, <2>1, <5>1, Zenon
      <4> QED BY <2>1, <4>1, Zenon DEF Open
    <3> HIDE DEF below
    <3> QED BY <3>1, <3>2, EmptySequence
  <2>2. CASE ~(Len(fs) > 1 /\ fs[f].collapsed)
    <3>1. below = [i \in 1 .. count |-> TestItem(start + i)]
      BY <2>2
    <3>2. Open(fs, f)
      BY <1>1, <2>2 DEF Open
    <3> HIDE DEF below, start, count
    <3>3. below = [i \in 1 .. count |-> below[i]] /\ DOMAIN below = 1 .. count
      BY <3>1
    <3>4. Sequence(below)
      BY <1>1, <3>3, IsSequence
    <3>5. \A j \in 1 .. count : below[j][1] = "test" /\ below[j][2] = start + j
      BY <3>1 DEF TestItem
    <3> QED BY <3>2, <3>3, <3>4, <3>5
  <2> QED BY <2>1, <2>2
<1> HIDE DEF top, below, b
<1>0. Concatenation(b, top, below)
  <2>1. Sequence(top) /\ Sequence(below)
    BY <1>3, <1>4
  <2>2. Concatenation(top \o below, top, below)
    BY <2>1, JoinedAs
  <2> QED BY <1>2, <2>2, Zenon
<1>5. /\ Sequence(b) /\ Len(top) \in Nat /\ Len(below) \in Nat /\ Len(b) = Len(top) + Len(below)
      /\ \A j \in DOMAIN below : b[Len(top) + j] = below[j] /\ Len(top) + j \in DOMAIN b
  <2>1. /\ Sequence(b) /\ Len(top) \in Nat /\ Len(below) \in Nat
        /\ DOMAIN below = 1 .. Len(below)
        /\ Len(b) = Len(top) + Len(below)
        /\ DOMAIN b = 1 .. Len(top) + Len(below)
        /\ \A j \in DOMAIN below : b[Len(top) + j] = below[j]
    BY <1>0 DEF Concatenation
  <2>2. \A j \in DOMAIN below : Len(top) + j \in 1 .. Len(top) + Len(below)
    BY <2>1
  <2> QED BY <1>2, <2>1, <2>2
<1>6. \A j \in DOMAIN b :
        \/ j = 1 /\ b[j][1] = "folder" /\ Len(fs) > 1
        \/ /\ j - Len(top) \in 1 .. count
           /\ b[j][1] = "test" /\ b[j][2] = start + (j - Len(top)) /\ Open(fs, f)
  <2> TAKE j \in DOMAIN b
  <2>1. \/ j \in DOMAIN top /\ b[j] = top[j]
        \/ j - Len(top) \in DOMAIN below /\ b[j] = below[j - Len(top)]
    BY <1>0, JoinedElements, Zenon
  <2> QED BY <1>3, <1>4, <2>1
<1> HIDE DEF start, count
<1>7. \A j \in DOMAIN b :
        \/ b[j][1] = "test" /\ b[j][2] \in TestsOf(fs, f) /\ Open(fs, f)
        \/ b[j][1] = "folder" /\ Len(fs) > 1
  <2> TAKE j \in DOMAIN b
  <2>1. \A m \in 1 .. count : start + m \in start + 1 .. start + count
    BY <1>1
  <2> QED BY <1>6, <2>1 DEF TestsOf, start, count
<1>8. ASSUME Open(fs, f), NEW i \in TestsOf(fs, f)
      PROVE  \E j \in DOMAIN b : b[j][1] = "test" /\ b[j][2] = i
  <2>1. i \in Int /\ i - start \in 1 .. count /\ start + (i - start) = i
    BY <1>1 DEF TestsOf, start, count
  <2>2. i - start \in DOMAIN below
    BY <1>4, <1>8, <2>1
  <2> QED BY <1>4, <1>5, <2>1, <2>2
<1>9. Increasing(b)
  <2> SUFFICES ASSUME NEW k \in DOMAIN b, NEW l \in DOMAIN b,
                      b[k][1] = "test", b[l][1] = "test", k < l
               PROVE  b[k][2] < b[l][2]
    BY DEF Increasing
  <2>1. k \in Int /\ l \in Int
    BY <1>5 DEF Sequence
  <2>2. b[k][2] = start + (k - Len(top)) /\ b[l][2] = start + (l - Len(top))
    BY <1>6
  <2>3. \A p \in Nat, x, y, q \in Int : x < y => p + (x - q) < p + (y - q)
    OBVIOUS
  <2>4. start \in Nat /\ Len(top) \in Int
    BY <1>1, <1>5
  <2> QED BY <2>1, <2>2, <2>3, <2>4
<1>10. Len(fs) > 1 => Len(b) >= 1
  <2>1. \A x, y \in Nat : x = 1 => x + y >= 1
    OBVIOUS
  <2>2. /\ Len(top) \in Nat /\ Len(below) \in Nat /\ Len(b) = Len(top) + Len(below)
        /\ Len(fs) > 1 => Len(top) = 1
    BY <1>3, <1>5, Zenon
  <2> QED BY <2>1, <2>2, Zenon
<1> QED BY <1>5, <1>7, <1>8, <1>9, <1>10 DEF b

\* One folder more.
LEMMA ListsMore ==
  ASSUME NEW fs, NEW n, AreFolders(fs, n), NEW k \in DOMAIN fs,
         NEW t, Lists(t, fs, k - 1)
  PROVE  Lists(t \o Block(fs, k), fs, k)
<1> DEFINE b == Block(fs, k)
           c == t \o b
           start == fs[k].start
           end == fs[k].start + fs[k].count
<1>1. /\ k \in Nat \ {0} /\ Sequence(t)
      /\ start = LastTest(fs, k - 1) /\ end = LastTest(fs, k)
      /\ start \in Nat /\ end \in Nat /\ start <= end
  <2>1. k \in Nat \ {0} /\ Sequence(t)
    <3>1. Len(fs) \in Nat /\ k \in 1 .. Len(fs)
      BY DEF AreFolders, Sequence
    <3> QED BY <3>1 DEF Lists
  <2>2. start = LastTest(fs, k - 1) /\ start \in Nat /\ fs[k].count \in Nat
    BY DEF AreFolders
  <2>3. end = LastTest(fs, k)
    BY <2>1 DEF LastTest
  <2> QED BY <2>1, <2>2, <2>3
<1>2. /\ Sequence(b)
      /\ \A j \in DOMAIN b :
           \/ b[j][1] = "test" /\ b[j][2] \in TestsOf(fs, k) /\ Open(fs, k)
           \/ b[j][1] = "folder" /\ Len(fs) > 1
      /\ Open(fs, k) =>
           \A i \in TestsOf(fs, k) : \E j \in DOMAIN b : b[j][1] = "test" /\ b[j][2] = i
      /\ Increasing(b)
      /\ Len(fs) > 1 => Len(b) >= 1
  BY BlockLaw, Zenon
<1> HIDE DEF b
<1>0. Concatenation(c, t, b)
  <2>1. Concatenation(t \o b, t, b)
    BY <1>1, <1>2, JoinedAs, Zenon
  <2> QED BY <2>1, Zenon DEF c
<1> HIDE DEF c
<1>3. /\ Sequence(c) /\ Len(t) \in Nat /\ Len(b) \in Nat /\ Len(c) = Len(t) + Len(b)
      /\ DOMAIN t = 1 .. Len(t) /\ DOMAIN b = 1 .. Len(b) /\ DOMAIN c = 1 .. Len(t) + Len(b)
      /\ \A j \in DOMAIN t : c[j] = t[j]
      /\ \A j \in DOMAIN b : c[Len(t) + j] = b[j]
  BY <1>0 DEF Concatenation
<1>4. \A j \in DOMAIN c : \/ j \in DOMAIN t /\ c[j] = t[j]
                          \/ j - Len(t) \in DOMAIN b /\ c[j] = b[j - Len(t)]
  BY <1>0, JoinedElements, Zenon
<1> HIDE DEF start, end
<1>5. TestsOf(fs, k) = start + 1 .. end
  BY DEF TestsOf, start, end
<1>6. /\ \A j \in DOMAIN t :
           \/ t[j][1] = "test" /\ t[j][2] \in 1 .. start /\ Shown(fs, t[j][2], k - 1)
           \/ t[j][1] = "folder" /\ Len(fs) > 1
      /\ \A i \in Nat : Shown(fs, i, k - 1) =>
           \E j \in DOMAIN t : t[j][1] = "test" /\ t[j][2] = i
      /\ Increasing(t) /\ (Len(fs) > 1 => Len(t) >= k - 1)
  BY <1>1 DEF Lists
<1>7. \A i : Shown(fs, i, k) <=> Shown(fs, i, k - 1) \/ (Open(fs, k) /\ i \in TestsOf(fs, k))
  <2>1. 1 .. k = (1 .. k - 1) \cup {k}
    BY <1>1
  <2> QED BY <2>1 DEF Shown
<1>8. \A j \in DOMAIN c :
        \/ c[j][1] = "test" /\ c[j][2] \in 1 .. end /\ Shown(fs, c[j][2], k)
        \/ c[j][1] = "folder" /\ Len(fs) > 1
  <2>1. (1 .. start) \subseteq 1 .. end /\ (start + 1 .. end) \subseteq 1 .. end
    BY <1>1
  <2> QED BY <1>2, <1>4, <1>5, <1>6, <1>7, <2>1
<1>9. ASSUME NEW i \in Nat, Shown(fs, i, k)
      PROVE  \E j \in DOMAIN c : c[j][1] = "test" /\ c[j][2] = i
  <2>1. CASE Shown(fs, i, k - 1)
    <3>1. PICK j \in DOMAIN t : t[j][1] = "test" /\ t[j][2] = i
      BY <1>6, <2>1
    <3>2. j \in DOMAIN c /\ c[j] = t[j]
      BY <1>3
    <3> QED BY <3>1, <3>2
  <2>2. CASE Open(fs, k) /\ i \in TestsOf(fs, k)
    <3>1. PICK j \in DOMAIN b : b[j][1] = "test" /\ b[j][2] = i
      BY <1>2, <2>2
    <3>2. Len(t) + j \in DOMAIN c /\ c[Len(t) + j] = b[j]
      BY <1>3
    <3> QED BY <3>1, <3>2
  <2> QED BY <1>7, <1>9, <2>1, <2>2
<1>10. Increasing(c)
  <2> SUFFICES ASSUME NEW p \in DOMAIN c, NEW q \in DOMAIN c,
                      c[p][1] = "test", c[q][1] = "test", p < q
               PROVE  c[p][2] < c[q][2]
    BY DEF Increasing
  <2>0. p \in Int /\ q \in Int
    BY <1>3
  <2>1. CASE p \in DOMAIN t /\ q \in DOMAIN t
    BY <1>3, <1>6, <2>1 DEF Increasing
  <2>2. CASE p - Len(t) \in DOMAIN b /\ c[p] = b[p - Len(t)]
             /\ q - Len(t) \in DOMAIN b /\ c[q] = b[q - Len(t)]
    <3>1. p - Len(t) < q - Len(t)
      BY <1>3, <2>0
    <3> QED BY <1>2, <2>2, <3>1 DEF Increasing
  <2>3. CASE p \in DOMAIN t /\ q - Len(t) \in DOMAIN b /\ c[q] = b[q - Len(t)]
    <3>1. c[p][2] \in 1 .. start
      BY <1>3, <1>6, <2>3
    <3>2. c[q][2] \in start + 1 .. end
      BY <1>2, <1>5, <2>3
    <3> QED BY <1>1, <3>1, <3>2
  <2>4. ~(p - Len(t) \in DOMAIN b /\ q \in DOMAIN t)
    BY <1>3, <2>0
  <2> QED BY <1>4, <2>1, <2>2, <2>3, <2>4
<1>11. Len(fs) > 1 => Len(c) >= k
  BY <1>1, <1>2, <1>3, <1>6
<1>12. Lists(c, fs, k)
  BY <1>1, <1>3, <1>8, <1>9, <1>10, <1>11 DEF Lists
<1> QED BY <1>12 DEF c, b

\* The tree lists the tests that are shown.
LEMMA TreeLaw ==
  ASSUME NEW fs, NEW n, AreFolders(fs, n)
  PROVE  Lists(Tree(fs), fs, Len(fs))
<1> DEFINE T == UNION {{Block(fs, f)[j] : j \in DOMAIN Block(fs, f)} : f \in DOMAIN fs}
           blocks == [f \in DOMAIN fs |-> Block(fs, f)]
<1>1. Tree(fs) = FlattenSeq(blocks)
  BY Zenon DEF Tree, Block
<1>2. Len(fs) \in Nat /\ DOMAIN fs = 1 .. Len(fs)
  BY DEF AreFolders, Sequence
<1>3. blocks \in Seq(Seq(T)) /\ Len(blocks) = Len(fs)
  <2>1. ASSUME NEW f \in DOMAIN fs PROVE Block(fs, f) \in Seq(T)
    <3> DEFINE b == Block(fs, f)
    <3>1. Sequence(b)
      BY BlockLaw, Zenon
    <3>2. {b[j] : j \in DOMAIN b} \subseteq T
      BY Zenon
    <3> HIDE DEF b, T
    <3>3. b \in Seq(T)
      BY <3>1, <3>2 DEF Sequence
    <3> QED BY <3>3 DEF b
  <2> HIDE DEF T
  <2>2. blocks = [f \in 1 .. Len(fs) |-> Block(fs, f)]
    BY <1>2
  <2>3. \A f \in 1 .. Len(fs) : Block(fs, f) \in Seq(T)
    BY <1>2, <2>1
  <2> HIDE DEF blocks
  <2> QED BY <1>2, <2>2, <2>3
<1>4. PICK g : Flattening(g, blocks, T)
  <2> HIDE DEF T, blocks
  <2> QED BY <1>3, FlattenLaw, Zenon
<1> HIDE DEF T
<1> DEFINE good == {k \in 0 .. Len(fs) : Lists(g[k], fs, k)}
<1>5. 0 \in good
  <2>1. g[0] = <<>>
    BY <1>4 DEF Flattening
  <2>2. Sequence(<<>>) /\ DOMAIN <<>> = {} /\ Len(<<>>) >= 0
    BY EmptySequence
  <2>3. \A i : ~Shown(fs, i, 0)
    BY DEF Shown
  <2>4. Lists(<<>>, fs, 0)
    BY <2>2, <2>3 DEF Lists, Increasing
  <2> QED BY <1>2, <2>1, <2>4
<1>6. ASSUME NEW k \in 1 .. Len(fs), k - 1 \in good PROVE k \in good
  <2>1. g[k] = g[k - 1] \o blocks[k]
    BY <1>3, <1>4 DEF Flattening
  <2>2. blocks[k] = Block(fs, k) /\ k \in DOMAIN fs
    BY <1>2
  <2>3. Lists(g[k - 1], fs, k - 1)
    BY <1>6
  <2>4. Lists(g[k - 1] \o Block(fs, k), fs, k)
    BY <2>2, <2>3, ListsMore, Zenon
  <2>5. Lists(g[k], fs, k) /\ k \in 0 .. Len(fs)
    BY <1>2, <2>1, <2>2, <2>4
  <2> QED BY <2>5
<1>7. Len(fs) \in good
  <2> HIDE DEF good
  <2>1. \A k \in 0 .. Len(fs) : k \in good
    BY <1>2, <1>5, <1>6, Upward
  <2> QED BY <1>2, <2>1
<1>8. Tree(fs) = g[Len(fs)]
  BY <1>1, <1>3, <1>4 DEF Flattening
<1> QED BY <1>7, <1>8

\* The folders of a collection.
LEMMA FoldersLaw ==
  ASSUME NEW T, NEW c \in Seq(Seq(T))
  PROVE  AreFolders(FoldersOf(c), Len(FlattenSeq(c)))
<1> DEFINE fs == FoldersOf(c)
<1>1. Len(c) \in Nat /\ DOMAIN c = 1 .. Len(c) /\ \A k \in 1 .. Len(c) : c[k] \in Seq(T)
  OBVIOUS
<1>2. PICK g : Flattening(g, c, T)
  BY FlattenLaw, Zenon
<1>3. /\ g[0] = <<>> /\ g[Len(c)] = FlattenSeq(c)
      /\ \A k \in 0 .. Len(c) : g[k] \in Seq(T)
      /\ \A k \in 1 .. Len(c) : g[k] = g[k - 1] \o c[k]
  BY <1>2, Zenon DEF Flattening
<1>4. ASSUME NEW k \in 1 .. Len(c)
      PROVE  FlattenSeq(SubSeq(c, 1, k - 1)) = g[k - 1]
  <2> DEFINE s == SubSeq(c, 1, k - 1)
  <2>1. s \in Seq(Seq(T)) /\ Len(s) = k - 1 /\ \A i \in 1 .. k - 1 : s[i] = c[i]
    BY <1>1
  <2> HIDE DEF s
  <2>2. PICK h : Flattening(h, s, T)
    BY <2>1, FlattenLaw, Zenon
  <2> DEFINE good == {i \in 0 .. k - 1 : h[i] = g[i]}
  <2>3. 0 \in good
    <3>1. h[0] = g[0]
      BY <1>3, <2>2 DEF Flattening
    <3> QED BY <1>1, <3>1
  <2>4. ASSUME NEW i \in 1 .. k - 1, i - 1 \in good PROVE i \in good
    <3>1. h[i] = h[i - 1] \o s[i]
      BY <2>1, <2>2 DEF Flattening
    <3>0. i \in 1 .. Len(c)
      <4>1. Len(c) \in Nat
        BY <1>1
      <4> QED BY <4>1
    <3>2. g[i] = g[i - 1] \o c[i]
      BY <1>3, <3>0, Zenon
    <3>3. h[i - 1] = g[i - 1] /\ s[i] = c[i]
      BY <2>1, <2>4
    <3>4. h[i] = g[i] /\ i \in 0 .. k - 1
      BY <1>1, <3>1, <3>2, <3>3
    <3> QED BY <3>4
  <2>5. k - 1 \in good
    <3> HIDE DEF good
    <3>1. k - 1 \in Nat
      BY <1>1
    <3>2. \A i \in 0 .. k - 1 : i \in good
      BY <2>3, <2>4, <3>1, Upward
    <3> QED BY <3>1, <3>2
  <2>6. FlattenSeq(s) = h[k - 1]
    BY <2>1, <2>2 DEF Flattening
  <2> QED BY <2>5, <2>6 DEF s
<1>5. /\ fs = [k \in 1 .. Len(c) |-> fs[k]]
      /\ \A k \in 1 .. Len(c) : DOMAIN fs[k] = {"start", "count", "collapsed"}
      /\ \A k \in 1 .. Len(c) : /\ fs[k].start = Len(g[k - 1])
                                /\ fs[k].count = Len(c[k])
  BY <1>1, <1>4 DEF FoldersOf
<1> HIDE DEF fs
<1>6. Sequence(fs) /\ Len(fs) = Len(c) /\ DOMAIN fs = 1 .. Len(c)
  <2>1. Sequence(fs)
    BY <1>1, <1>5, IsSequence
  <2>2. DOMAIN fs = 1 .. Len(c)
    BY <1>5
  <2> QED BY <1>1, <2>1, <2>2 DEF Sequence
<1>7. \A k \in 1 .. Len(c) :
        /\ Len(g[k - 1]) \in Nat /\ Len(c[k]) \in Nat
        /\ Len(g[k]) = Len(g[k - 1]) + Len(c[k])
  <2> TAKE k \in 1 .. Len(c)
  <2>1. g[k - 1] \in Seq(T) /\ c[k] \in Seq(T) /\ g[k] = g[k - 1] \o c[k]
    BY <1>1, <1>3
  <2> QED BY <2>1
<1>8. \A k \in 0 .. Len(c) : LastTest(fs, k) = Len(g[k])
  <2> TAKE k \in 0 .. Len(c)
  <2>1. CASE k = 0
    <3>1. Len(<<>>) = 0 /\ g[k] = <<>>
      BY <1>3, <2>1
    <3> QED BY <2>1, <3>1, Zenon DEF LastTest
  <2>2. CASE k # 0
    <3>1. k \in 1 .. Len(c)
      BY <1>1, <2>2
    <3>2. fs[k].start = Len(g[k - 1]) /\ fs[k].count = Len(c[k])
      BY <1>5, <3>1, Zenon
    <3>3. Len(g[k]) = Len(g[k - 1]) + Len(c[k])
      BY <1>7, <3>1, Zenon
    <3> QED BY <2>2, <3>2, <3>3, Zenon DEF LastTest
  <2> QED BY <2>1, <2>2
<1>9. \A k \in DOMAIN fs :
        /\ DOMAIN fs[k] = {"start", "count", "collapsed"}
        /\ fs[k].start = LastTest(fs, k - 1)
        /\ fs[k].start \in Nat /\ fs[k].count \in Nat
  <2> TAKE k \in DOMAIN fs
  <2>1. k \in 1 .. Len(c) /\ k - 1 \in 0 .. Len(c)
    BY <1>1, <1>6
  <2>2. /\ DOMAIN fs[k] = {"start", "count", "collapsed"}
        /\ fs[k].start = Len(g[k - 1]) /\ fs[k].count = Len(c[k])
    BY <1>5, <2>1, Zenon
  <2>3. Len(g[k - 1]) \in Nat /\ Len(c[k]) \in Nat
    BY <1>7, <2>1, Zenon
  <2>4. LastTest(fs, k - 1) = Len(g[k - 1])
    BY <1>8, <2>1, Zenon
  <2> QED BY <2>2, <2>3, <2>4
<1>10. LastTest(fs, Len(fs)) = Len(FlattenSeq(c))
  BY <1>1, <1>3, <1>6, <1>8
<1>11. AreFolders(fs, Len(FlattenSeq(c)))
  BY <1>6, <1>9, <1>10 DEF AreFolders
<1> QED BY <1>11 DEF fs

-----------------------------------------------------------------------------
(* The list of tests.                                                      *)

AreRequests(requests) ==
  /\ Sequence(requests)
  /\ \A i \in DOMAIN requests : Sequence(requests[i].headers) /\ Sequence(requests[i].body)

ListInv ==
  /\ AreRequests(cases)
  /\ DOMAIN tests = DOMAIN cases
  /\ AreFolders(folders, Len(cases))
  /\ tree = Tree(folders)
  /\ cursor \in Nat
  /\ tree # <<>> => cursor < Len(tree)

\* A row of the tree is a folder, of several, or one of the tests.
LEMMA TreeRow ==
  ASSUME ListInv, NEW j \in DOMAIN tree
  PROVE  \/ tree[j][1] = "test" /\ tree[j][2] \in DOMAIN cases
         \/ tree[j][1] = "folder" /\ Len(folders) > 1
<1>1. Lists(tree, folders, Len(folders))
  BY TreeLaw, Zenon DEF ListInv
<1>2. LastTest(folders, Len(folders)) = Len(cases) /\ DOMAIN cases = 1 .. Len(cases)
  BY DEF ListInv, AreFolders, AreRequests, Sequence
<1> QED BY <1>1, <1>2 DEF Lists

LEMMA SelectedRow ==
  ASSUME ListInv, cursor < Len(tree)
  PROVE  cursor + 1 \in DOMAIN tree
<1>1. Lists(tree, folders, Len(folders))
  BY TreeLaw, Zenon DEF ListInv
<1>2. Len(tree) \in Nat /\ DOMAIN tree = 1 .. Len(tree)
  BY <1>1 DEF Lists, Sequence
<1>3. cursor \in Nat
  BY DEF ListInv
<1> QED BY <1>2, <1>3

\* The list of a collection that has been loaded.
LEMMA LoadedList ==
  ASSUME NEW collection \in Collections \cup {<<>>}
  PROVE  LET fs == FoldersOf(collection)
             requests == FlattenSeq(collection)
         IN /\ AreRequests(requests)
            /\ AreFolders(fs, Len(requests))
            /\ FirstTest(fs) \in Nat
            /\ Tree(fs) # <<>> => FirstTest(fs) < Len(Tree(fs))
<1> DEFINE T == Requests(collection)
           fs == FoldersOf(collection)
           requests == FlattenSeq(collection)
<1>1. collection \in Seq(Seq(T))
  <2>1. CASE collection \in Collections
    BY <2>1, SessionAssumption
  <2>2. CASE collection = <<>>
    BY <2>2
  <2> QED BY <2>1, <2>2
<1>2. \A request \in T : Sequence(request.headers) /\ Sequence(request.body)
  <2>1. CASE collection \in Collections
    BY <2>1, SessionAssumption DEF Sequence, Range
  <2>2. CASE collection = <<>>
    <3>1. Range(collection) = {}
      BY <2>2 DEF Range
    <3>2. T = {}
      BY <3>1 DEF Requests
    <3> QED BY <3>2
  <2> QED BY <2>1, <2>2
<1> HIDE DEF T
<1>3. requests \in Seq(T)
  BY <1>1, FlattenType
<1>4. AreFolders(fs, Len(requests))
  BY <1>1, FoldersLaw
<1> HIDE DEF requests, fs
<1>5. AreRequests(requests)
  <2>1. DOMAIN requests = 1 .. Len(requests) /\ Len(requests) \in Nat
    BY <1>3
  <2>2. requests = [i \in 1 .. Len(requests) |-> requests[i]]
        /\ \A i \in DOMAIN requests : requests[i] \in T
    BY <1>3
  <2>3. Sequence(requests)
    BY <2>1, <2>2, IsSequence
  <2> QED BY <1>2, <2>2, <2>3 DEF AreRequests
<1>6. FirstTest(fs) \in Nat /\ (Tree(fs) # <<>> => FirstTest(fs) < Len(Tree(fs)))
  <2> DEFINE t == Tree(fs)
  <2>1. Lists(t, fs, Len(fs)) /\ Sequence(fs)
    BY <1>4, TreeLaw, Zenon DEF AreFolders
  <2> HIDE DEF t
  <2>2. /\ Len(t) \in Nat /\ Len(fs) \in Nat /\ (t # <<>> => Len(t) # 0)
        /\ (Len(fs) > 1 => Len(t) >= Len(fs))
    BY <2>1 DEF Lists, Sequence
  <2>3. FirstTest(fs) \in {0, 1} /\ (FirstTest(fs) = 1 => Len(fs) > 1)
    BY DEF FirstTest
  <2>4. \A c, m, k \in Nat : c \in {0, 1} /\ (c = 1 => m > 1) /\ (m > 1 => k >= m) /\ k # 0
                             => c < k
    OBVIOUS
  <2>5. FirstTest(fs) \in Nat
    BY <2>3
  <2>6. t # <<>> => FirstTest(fs) < Len(t)
    BY <2>2, <2>3, <2>4, <2>5, Zenon
  <2> QED BY <2>5, <2>6 DEF t
<1> QED BY <1>4, <1>5, <1>6 DEF requests, fs

LEMMA ListLoaded ==
  ASSUME NEW collection \in Collections, NEW p, Apply(collection, p)
  PROVE  ListInv'
<1>1. /\ folders' = FoldersOf(collection) /\ cases' = FlattenSeq(collection)
      /\ tests' = [i \in DOMAIN cases' |-> Pending]
      /\ tree' = Tree(folders') /\ cursor' = FirstTest(folders')
  BY DEF Apply
<1>2. DOMAIN tests' = DOMAIN cases'
  BY <1>1
<1>3. /\ AreRequests(cases') /\ AreFolders(folders', Len(cases')) /\ FirstTest(folders') \in Nat
      /\ Tree(folders') # <<>> => FirstTest(folders') < Len(Tree(folders'))
  BY <1>1, LoadedList, Zenon
<1> QED BY <1>1, <1>2, <1>3 DEF ListInv

LEMMA ListBegins == Init => ListInv
<1> SUFFICES ASSUME Init PROVE ListInv
  OBVIOUS
<1>1. PICK collection \in Collections \cup {<<>>} :
        folders = FoldersOf(collection) /\ cases = FlattenSeq(collection)
  BY DEF Init
<1>2. /\ tests = [i \in DOMAIN cases |-> Pending]
      /\ tree = Tree(folders) /\ cursor = FirstTest(folders)
  BY DEF Init
<1>3. DOMAIN tests = DOMAIN cases
  BY <1>2
<1>4. /\ AreRequests(cases) /\ AreFolders(folders, Len(cases)) /\ FirstTest(folders) \in Nat
      /\ Tree(folders) # <<>> => FirstTest(folders) < Len(Tree(folders))
  BY <1>1, LoadedList, Zenon
<1> QED BY <1>2, <1>3, <1>4 DEF ListInv

LEMMA SameList ==
  ASSUME ListInv, UNCHANGED <<cases, folders, tree, cursor>>, DOMAIN tests' = DOMAIN tests
  PROVE  ListInv'
BY DEF ListInv

\* A folder is opened or closed.
LEMMA ToggleStep ==
  ASSUME ListInv, ToggleFolder
  PROVE  ListInv'
<1> DEFINE f == tree[cursor + 1][2]
<1>1. /\ cursor < Len(tree) /\ tree[cursor + 1][1] = "folder"
      /\ folders' = [folders EXCEPT ![f].collapsed = ~@]
      /\ tree' = Tree(folders') /\ cursor' = Clamped(cursor, tree')
      /\ UNCHANGED <<cases, tests>>
  BY DEF ToggleFolder
<1>2. Len(folders) > 1
  BY <1>1, SelectedRow, TreeRow
<1> HIDE DEF f
<1>3. Sequence(folders) /\ Len(folders) \in Nat /\ DOMAIN folders = 1 .. Len(folders)
  BY DEF ListInv, AreFolders, Sequence
<1>4. Sequence(folders') /\ Len(folders') = Len(folders) /\ DOMAIN folders' = DOMAIN folders
  <2> DEFINE folder == [folders[f] EXCEPT !.collapsed = ~@]
  <2>1. folders' = [folders EXCEPT ![f] = folder]
    BY <1>1
  <2> HIDE DEF folder
  <2> QED BY <1>3, <2>1, Changed
<1>5. \A k \in DOMAIN folders : DOMAIN folders[k] = {"start", "count", "collapsed"}
  BY DEF ListInv, AreFolders
<1>6. \A k \in DOMAIN folders : /\ DOMAIN folders'[k] = {"start", "count", "collapsed"}
                                /\ folders'[k].start = folders[k].start
                                /\ folders'[k].count = folders[k].count
  BY <1>1, <1>5
<1>7. \A k \in 0 .. Len(folders) : LastTest(folders', k) = LastTest(folders, k)
  BY <1>3, <1>6 DEF LastTest
<1>8. AreFolders(folders', Len(cases'))
  <2>1. \A k \in DOMAIN folders : k - 1 \in 0 .. Len(folders) /\ Len(folders) \in 0 .. Len(folders)
    BY <1>3
  <2>2. /\ LastTest(folders, Len(folders)) = Len(cases)
        /\ \A k \in DOMAIN folders : /\ folders[k].start = LastTest(folders, k - 1)
                                     /\ folders[k].start \in Nat /\ folders[k].count \in Nat
    BY DEF ListInv, AreFolders
  <2>3. LastTest(folders', Len(folders')) = Len(cases')
    <3>1. Len(folders) \in 0 .. Len(folders)
      BY <1>3
    <3>2. LastTest(folders', Len(folders)) = LastTest(folders, Len(folders))
      BY <1>7, <3>1, Zenon
    <3>3. UNCHANGED cases /\ Len(folders') = Len(folders)
      BY <1>1, <1>4, Zenon
    <3> QED BY <2>2, <3>2, <3>3, Zenon
  <2>4. \A k \in DOMAIN folders' : /\ DOMAIN folders'[k] = {"start", "count", "collapsed"}
                                   /\ folders'[k].start = LastTest(folders', k - 1)
                                   /\ folders'[k].start \in Nat /\ folders'[k].count \in Nat
    BY <1>4, <1>6, <1>7, <2>1, <2>2
  <2> QED BY <1>4, <2>3, <2>4 DEF AreFolders
<1>9. Lists(tree', folders', Len(folders'))
  BY <1>1, <1>8, TreeLaw, Zenon
<1>10. Len(tree') \in Nat /\ Len(tree') >= Len(folders')
  BY <1>2, <1>4, <1>9 DEF Lists, Sequence
<1>11. cursor' \in Nat /\ cursor' < Len(tree')
  <2>1. cursor \in Nat
    BY DEF ListInv
  <2>2. Len(tree') > 0
    BY <1>2, <1>3, <1>4, <1>10
  <2>3. cursor' = IF cursor >= Len(tree') THEN Len(tree') - 1 ELSE cursor
    BY <1>1 DEF Clamped
  <2> QED BY <1>10, <2>1, <2>2, <2>3
<1> QED BY <1>1, <1>4, <1>8, <1>11 DEF ListInv

\* What the keys and messages do to the list.
LEMMA SaveStep ==
  ASSUME ListInv, OverlayInv, SaveRequest
  PROVE  ListInv'
<1> DEFINE request == Saved(editor)
<1>1. cases' = [cases EXCEPT ![editor.test] = request] /\ UNCHANGED <<folders, tests, tree, cursor>>
  BY DEF SaveRequest
<1>2. Sequence(request.headers) /\ Sequence(request.body)
  BY SavedRequest DEF OverlayInv
<1> HIDE DEF request
<1>3. AreRequests(cases)
  BY DEF ListInv
<1>4. Sequence(cases') /\ Len(cases') = Len(cases) /\ DOMAIN cases' = DOMAIN cases
  BY <1>1, <1>3, Changed DEF AreRequests
<1>5. \A i \in DOMAIN cases : cases'[i] = cases[i] \/ cases'[i] = request
  BY <1>1
<1>6. AreRequests(cases')
  BY <1>2, <1>3, <1>4, <1>5 DEF AreRequests
<1> QED BY <1>1, <1>4, <1>6 DEF ListInv

LEMMA RerunList ==
  ASSUME ListInv, Rerun
  PROVE  ListInv'
<1>1. CASE UNCHANGED <<generation, folders, tests, cases, tree, cursor, runs, rx>>
  BY <1>1, SameList
<1>2. ASSUME NEW collection \in Collections, Apply(collection, "running")
      PROVE  ListInv'
  BY <1>2, ListLoaded
<1> QED BY <1>1, <1>2 DEF Rerun

LEMMA ReceiveList ==
  ASSUME SessionInv, ListInv, Receive
  PROVE  ListInv'
<1> DEFINE m == Head(runs[rx].channel)
<1>1. /\ rx # 0 /\ runs[rx].channel # <<>> /\ Handle(m)
      /\ UNCHANGED <<cases, folders, tree, cursor>>
  BY DEF Receive
<1>2. IsRun(runs[rx])
  BY <1>1 DEF SessionInv, ShapeInv
<1>3. m \in Message(runs[rx].generation, runs[rx].which)
  BY <1>1, <1>2 DEF IsRun
<1> HIDE DEF m
<1>4. m.what \in {"started", "finished"} \cup LastWords
  BY <1>3 DEF Message
<1>5. DOMAIN tests' = DOMAIN tests
  BY <1>1, <1>4, HandleRows
<1> QED BY <1>1, <1>5, SameList

-----------------------------------------------------------------------------
(* What is on show, all of it.                                             *)

ViewInv == ListInv /\ OverlayInv

LEMMA ViewBegins == Init => ViewInv
<1>1. Init => OverlayInv
  BY ClosedOverlays DEF Init
<1> QED BY <1>1, ListBegins DEF ViewInv

LEMMA ViewMessage ==
  ASSUME SessionInv, ViewInv, Receive \/ \E r \in DOMAIN runs : Thread(r)
  PROVE  ViewInv'
<1>1. UNCHANGED <<browser, editor, params>>
  BY DEF Receive, Thread
<1>2. OverlayInv'
  BY <1>1, SameOverlays DEF ViewInv
<1>3. CASE Receive
  BY <1>2, <1>3, ReceiveList DEF ViewInv
<1>4. CASE \E r \in DOMAIN runs : Thread(r)
  <2>1. UNCHANGED <<cases, folders, tests, tree, cursor>>
    BY <1>4 DEF Thread
  <2> QED BY <1>2, <2>1, SameList DEF ViewInv
<1> QED BY <1>3, <1>4

LEMMA ViewMainKey ==
  ASSUME ViewInv, MainKey
  PROVE  ViewInv'
<1>0. ListInv /\ OverlayInv
  BY DEF ViewInv
<1>1. ASSUME NEW c, Select(c) PROVE ViewInv'
  <2>1. /\ c \in 0 .. Len(tree) - 1 /\ cursor' = c
        /\ UNCHANGED <<cases, folders, tests, tree, browser, editor, params>>
    BY <1>1 DEF Select
  <2>2. Lists(tree, folders, Len(folders))
    BY <1>0, TreeLaw, Zenon DEF ListInv
  <2>3. Len(tree) \in Nat
    BY <2>2 DEF Lists, Sequence
  <2>4. cursor' \in Nat /\ cursor' < Len(tree')
    BY <2>1, <2>3
  <2>5. ListInv'
    BY <1>0, <2>1, <2>4 DEF ListInv
  <2> QED BY <1>0, <2>1, <2>5, SameOverlays DEF ViewInv
<1>2. CASE ToggleFolder
  <2>1. UNCHANGED <<browser, editor, params>>
    BY <1>2 DEF ToggleFolder
  <2> QED BY <1>0, <1>2, <2>1, ToggleStep, SameOverlays DEF ViewInv
<1>3. CASE RunSelected
  <2>1. /\ tests' = [tests EXCEPT ![tree[cursor + 1][2]] = Pending]
        /\ UNCHANGED <<cases, folders, tree, cursor, browser, editor, params>>
    BY <1>3 DEF RunSelected
  <2>2. DOMAIN tests' = DOMAIN tests
    BY <2>1
  <2> QED BY <1>0, <2>1, <2>2, SameList, SameOverlays DEF ViewInv
<1>4. CASE RerunKey
  <2>1. Rerun /\ UNCHANGED <<browser, editor, params>>
    BY <1>4 DEF RerunKey
  <2> QED BY <1>0, <2>1, RerunList, SameOverlays DEF ViewInv
<1>5. CASE OpenRequestEditor
  <2> DEFINE ti == tree[cursor + 1][2]
  <2>1. /\ cursor < Len(tree) /\ tree[cursor + 1][1] = "test"
        /\ editor' = Opened(ti, cases[ti])
        /\ UNCHANGED <<cases, folders, tests, tree, cursor, browser, params>>
    BY <1>5 DEF OpenRequestEditor
  <2>2. ti \in DOMAIN cases
    BY <1>0, <2>1, SelectedRow, TreeRow
  <2> HIDE DEF ti
  <2>3. Sequence(cases[ti].headers) /\ Sequence(cases[ti].body)
    BY <1>0, <2>2 DEF ListInv, AreRequests
  <2>4. IsEditor(editor')
    BY <2>1, <2>3, OpenedEditor
  <2>5. OverlayInv'
    BY <1>0, <2>1, <2>4 DEF OverlayInv, Entries
  <2> QED BY <1>0, <2>1, <2>5, SameList DEF ViewInv
<1>6. CASE OpenParams \/ OpenBrowser
  <2>1. UNCHANGED <<cases, folders, tests, tree, cursor>>
    BY <1>6 DEF OpenParams, OpenBrowser
  <2> QED BY <1>0, <1>6, <2>1, SameList, ParamsKeys, BrowserKeys DEF ViewInv
<1>7. CASE Quit
  <2>1. UNCHANGED <<cases, folders, tests, tree, cursor, browser, editor, params>>
    BY <1>7 DEF Quit
  <2> QED BY <1>0, <2>1, SameList, SameOverlays DEF ViewInv
<1> QED BY <1>1, <1>2, <1>3, <1>4, <1>5, <1>6, <1>7 DEF MainKey

LEMMA ViewOverlayKey ==
  ASSUME ViewInv, OverlayKey
  PROVE  ViewInv'
<1>0. ListInv /\ OverlayInv
  BY DEF ViewInv
<1>1. CASE \/ BrowserMoves(browser.cursor - 1) \/ BrowserMoves(browser.cursor + 1)
           \/ ChangeDirectory
  <2>1. UNCHANGED <<cases, folders, tests, tree, cursor>>
    BY <1>1 DEF BrowserMoves, ChangeDirectory
  <2> QED BY <1>0, <1>1, <2>1, SameList, BrowserKeys DEF ViewInv
<1>2. CASE OpenCollection
  <2>1. OverlayInv'
    <3>1. CloseOverlays \/ UNCHANGED <<browser, editor, params>>
      BY <1>2 DEF OpenCollection
    <3> QED BY <1>0, <3>1, ClosedOverlays, SameOverlays
  <2>2. \/ UNCHANGED <<cases, folders, tests, tree, cursor>>
        \/ \E collection \in Collections : Apply(collection, "idle")
    BY <1>2, Zenon DEF OpenCollection
  <2>3. ListInv'
    BY <1>0, <2>2, SameList, ListLoaded
  <2> QED BY <2>1, <2>3 DEF ViewInv
<1>3. CASE MoveInRequest \/ EditRow \/ EditText
  <2>1. UNCHANGED <<cases, folders, tests, tree, cursor>>
    BY <1>3 DEF MoveInRequest, EditRow, EditText, Edit
  <2> QED BY <1>0, <1>3, <2>1, SameList, EditorKeys DEF ViewInv
<1>4. CASE AddHeaderOverflows
  <2>1. UNCHANGED <<cases, folders, tests, tree, cursor, browser, editor, params>>
    BY <1>4 DEF AddHeaderOverflows
  <2> QED BY <1>0, <2>1, SameList, SameOverlays DEF ViewInv
<1>5. CASE SaveRequest
  <2>1. CloseOverlays
    BY <1>5 DEF SaveRequest
  <2> QED BY <1>0, <1>5, <2>1, SaveStep, ClosedOverlays DEF ViewInv
<1>6. CASE MoveInParams \/ ParamKey
  <2>1. UNCHANGED <<cases, folders, tests, tree, cursor>>
    BY <1>6 DEF MoveInParams, ParamKey, EditParams
  <2> QED BY <1>0, <1>6, <2>1, SameList, ParamsKeys DEF ViewInv
<1>7. CASE RerunWithParams
  <2>1. Rerun /\ CloseOverlays
    BY <1>7 DEF RerunWithParams
  <2> QED BY <1>0, <2>1, RerunList, ClosedOverlays DEF ViewInv
<1>8. CASE Escape
  <2>1. CloseOverlays /\ UNCHANGED <<cases, folders, tests, tree, cursor>>
    BY <1>8 DEF Escape
  <2> QED BY <1>0, <2>1, SameList, ClosedOverlays DEF ViewInv
<1> QED BY <1>1, <1>2, <1>3, <1>4, <1>5, <1>6, <1>7, <1>8 DEF OverlayKey

\* Every key and every message keeps what is on show in order: the list and
\* its tree, and the state of each overlay.
THEOREM ViewIsInductive == Spec => []ViewInv
<1>1. ASSUME SessionInv, ViewInv, [Next]_vars PROVE ViewInv'
  <2>1. CASE Receive \/ \E r \in DOMAIN runs : Thread(r)
    BY <1>1, <2>1, ViewMessage
  <2>2. CASE MainKey
    BY <1>1, <2>2, ViewMainKey
  <2>3. CASE OverlayKey
    BY <1>1, <2>3, ViewOverlayKey
  <2>4. CASE UNCHANGED vars
    BY <1>1, <2>4, SameList, SameOverlays DEF vars, ViewInv
  <2> QED BY <1>1, <2>1, <2>2, <2>3, <2>4 DEF Next
<1> QED BY <1>1, ViewBegins, Inductive, PTL DEF Spec

\* Whatever is opened, closed, loaded, added and deleted, every cursor is on a
\* row that is there, and the tree lists each test of the folders that are
\* open, in order and once (rebuild_tree, clamp_cursor, RequestEditor,
\* ParamEditor, FileBrowser).
THEOREM CursorsStayInRange == Spec => []CursorsInRange
<1>1. ASSUME ViewInv PROVE CursorsInRange
  <2> DEFINE rows == {k \in DOMAIN tree : tree[k][1] = "test"}
             shown == {i \in DOMAIN tests : Len(folders) = 1 \/ \E f \in DOMAIN folders :
                         /\ ~folders[f].collapsed
                         /\ i \in folders[f].start + 1 .. folders[f].start + folders[f].count}
  <2>0. ListInv /\ OverlayInv
    BY <1>1 DEF ViewInv
  <2>1. Lists(tree, folders, Len(folders))
    BY <2>0, TreeLaw, Zenon DEF ListInv
  <2>2. /\ Len(folders) \in Nat /\ DOMAIN folders = 1 .. Len(folders)
        /\ LastTest(folders, Len(folders)) = Len(cases)
        /\ DOMAIN tests = 1 .. Len(cases) /\ Len(cases) \in Nat
    BY <2>0 DEF ListInv, AreFolders, AreRequests, Sequence
  <2>3. ASSUME NEW i \in DOMAIN tests PROVE i \in shown <=> Shown(folders, i, Len(folders))
    <3>1. ASSUME Len(folders) = 1 PROVE Shown(folders, i, Len(folders))
      <4>1. 1 \in DOMAIN folders /\ 1 \in 1 .. Len(folders) /\ 1 - 1 = 0
        BY <2>2, <3>1
      <4>2. folders[1].start = LastTest(folders, 0)
        BY <2>0, <4>1 DEF ListInv, AreFolders
      <4>3. folders[1].start = 0 /\ LastTest(folders, 1) = folders[1].start + folders[1].count
        BY <4>2 DEF LastTest
      <4>4. LastTest(folders, 1) = Len(cases)
        BY <2>2, <3>1, Zenon
      <4>5. i \in TestsOf(folders, 1)
        BY <2>2, <4>3, <4>4 DEF TestsOf
      <4> QED BY <3>1, <4>1, <4>5 DEF Shown, Open
    <3>2. ASSUME NEW f \in DOMAIN folders
          PROVE  f \in 1 .. Len(folders)
      BY <2>2
    <3> QED BY <2>2, <3>1, <3>2, Zenon DEF Shown, Open, TestsOf
  <2>4. {tree[k][2] : k \in rows} = shown
    <3>1. ASSUME NEW k \in rows PROVE tree[k][2] \in shown
      <4>1. tree[k][2] \in DOMAIN tests /\ Shown(folders, tree[k][2], Len(folders))
        BY <2>1, <2>2 DEF Lists
      <4> QED BY <2>3, <4>1
    <3>2. ASSUME NEW i \in shown PROVE \E k \in rows : tree[k][2] = i
      <4>1. i \in Nat /\ Shown(folders, i, Len(folders))
        BY <2>2, <2>3
      <4>2. \E k \in DOMAIN tree : tree[k][1] = "test" /\ tree[k][2] = i
        BY <2>1, <4>1 DEF Lists
      <4> QED BY <4>2
    <3> HIDE DEF rows, shown
    <3> QED BY <3>1, <3>2
  <2>5. \A k, l \in rows : k < l => tree[k][2] < tree[l][2]
    BY <2>1 DEF Lists, Increasing
  <2>6. tree # <<>> => cursor \in 0 .. Len(tree) - 1
    <3>1. Len(tree) \in Nat
      BY <2>1 DEF Lists, Sequence
    <3> QED BY <2>0, <3>1 DEF ListInv
  <2>7. editor.cursor \in 0 .. RowCount(editor) - 1
    BY <2>0 DEF OverlayInv, IsEditor
  <2>8. params.rows # <<>> => params.cursor \in 0 .. Len(params.rows) - 1
    BY <2>0 DEF OverlayInv, IsTable, Sequence
  <2>9. Entries # <<>> => browser.cursor \in 0 .. Len(Entries) - 1
    BY <2>0 DEF OverlayInv
  <2> QED BY <2>4, <2>5, <2>6, <2>7, <2>8, <2>9, Zenon DEF CursorsInRange
<1> QED BY <1>1, ViewIsInductive, PTL

\* However a form has been edited, what is saved of it is read as the same
\* form when the test is opened again, as long as the headers have the boundary
\* and no line of a value is one (serialize_form_body, parse_multipart_fields).
THEOREM SavedFormsAreReadBack == Spec => []SavedIsReadBack
<1>1. ASSUME ViewInv PROVE SavedIsReadBack
  <2> SUFFICES ASSUME editor.multipart, HasBoundary(editor.headers),
                      \A i \in DOMAIN editor.form : \A k \in DOMAIN editor.form[i][2] :
                        editor.form[i][2][k] \notin {Delimiter, End}
               PROVE  Opened(editor.test, Saved(editor)).form = editor.form
    BY Zenon DEF SavedIsReadBack
  <2>1. IsForm(editor.form)
    BY <1>1 DEF ViewInv, OverlayInv, IsEditor
  <2>2. Saved(editor).headers = editor.headers
        /\ Saved(editor).body = Serialized(editor.form)
    BY DEF Saved
  <2>3. Opened(editor.test, Saved(editor)).form = Fields(Serialized(editor.form))
    BY <2>2 DEF Opened
  <2>4. Fields(Serialized(editor.form)) = editor.form
    BY <2>1, ReadBack
  <2> QED BY <2>3, <2>4
<1> QED BY <1>1, ViewIsInductive, PTL
=============================================================================

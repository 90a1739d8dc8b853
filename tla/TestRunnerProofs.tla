--------------------------- MODULE TestRunnerProofs ---------------------------
(***************************************************************************)
(* Theorems about TestRunner, for any stores and variable names and any    *)
(* number of tests and calls: what a script finds in the stores, what a    *)
(* verdict is made of, and which exchange a script is shown.               *)
(***************************************************************************)
EXTENDS TestRunner, TLAPS

\* The values of the persistent stores.
Stores == [Store -> [Key -> Nat]]

\* The types of what TypeOK leaves out, and where in a test there is what.
ShapeInv ==
  /\ TypeOK
  /\ recorded \in Nat /\ recorded <= test /\ first <= test + 1
  /\ unreported \subseteq Library /\ inherited \subseteq Library
  /\ missed \subseteq Library
  /\ tainted \in BOOLEAN /\ stained \in BOOLEAN /\ due \in BOOLEAN
  /\ promise \in [kept : Stores, floor : Stores, seen : Stores]
  /\ running => phase \in Phases
  /\ phase # "next" => first <= test /\ 1 <= test /\ recorded # test

\* The request that was sent is the one the scripts left, from the end of the
\* fetch phase to the next test, and a script is given what there is.
ExchangeInv ==
  /\ \/ phase \in Post
     \/ phase = "fetch" /\ ~running
     \/ recorded = test
     => sent = request
  /\ running => input = [request |-> request,
                         response |-> IF phase \in Post THEN test ELSE input.response]

\* A module whose last user called results() is as a new slot has it.
SlotInv ==
  /\ "test" \notin unreported => slot.failed["test"] = {}
  /\ "pm" \notin unreported =>
       /\ slot.failed["pm"] = {} /\ slot.loaded = {}
       /\ slot.delta = Fresh.delta /\ slot.base = Fresh.base
       /\ slot.variables = Empty
  /\ ~running => inherited = {} /\ missed = {}

\* What the modules hold of failures is what the script missed, if it met
\* none, and the verdict what the scripts before it reported.
VerdictInv ==
  /\ VerdictJust
  /\ phase \in {"begun", "fetch"} \cup Pre \/ (phase = "post" /\ running) =>
       ~due /\ verdict = [passed |-> TRUE, failures |-> {}]
  /\ InScript => \A lib \in missed : test \in slot.failed[lib]
  /\ InScript /\ ~stained =>
       \A lib \in Library \ missed : slot.failed[lib] = {}
  /\ InScript /\ ~stained =>
       \A lib \in Library : slot.failed[lib] \subseteq {test}

\* The stores are as promised between scripts, and so is what a script falls
\* back to and sees.
ScopeInv ==
  /\ promise.kept = pm
  /\ ~InScript => promise = Promise(pm)
  /\ InScript /\ "pm" \notin inherited =>
       /\ promise.floor = [s \in Store |-> Base(slot, pm, s)]
       /\ promise.seen = View(slot, pm)
       /\ \A k \in Key : slot.variables[k] \in {Absent, test}

\* No store that is reset holds a value from before the reset.
Since(stores) ==
  \A s \in Resettable, k \in Key :
    stores[s][k] = Absent \/ stores[s][k] >= first

BleedInv ==
  ~tainted => /\ Since(pm)
              /\ InScript => Since(slot.delta) /\ Since(slot.base)

\* What holds between any two steps.
TestInv ==
  ShapeInv /\ ExchangeInv /\ SlotInv /\ VerdictInv /\ ScopeInv /\ BleedInv

-----------------------------------------------------------------------------
(* The order of the phases.                                                *)

\* Where each phase stands.
LEMMA Places ==
  /\ Place("begun") = 0 /\ Place("collection-pre") = 1 /\ Place("pre") = 2
  /\ Place("fetch") = 3 /\ Place("post") = 4 /\ Place("collection-post") = 5
<1>1. /\ DOMAIN Order = 1 .. 5
      /\ Order[1] = "collection-pre" /\ Order[2] = "pre" /\ Order[3] = "fetch"
      /\ Order[4] = "post" /\ Order[5] = "collection-post"
  BY DEF Order
<1>2. ASSUME NEW i \in 1 .. 5 PROVE Place(Order[i]) = i
  <2>1. \A j \in 1 .. 5 : Order[j] = Order[i] => j = i
    BY <1>1
  <2>2. Order[i] # "begun"
    BY <1>1
  <2> QED BY <1>1, <2>1, <2>2 DEF Place
<1>3. Place("begun") = 0
  BY DEF Place
<1> QED BY <1>1, <1>2, <1>3

\* Which phase may follow which: no post-script runs before the fetch phase.
LEMMA PhaseAfter ==
  ASSUME NEW p \in {"begun"} \cup Phases
  PROVE  /\ p \in {"begun"} \cup Pre => Following(p) # {}
         /\ Following(p) # {} =>
              /\ FirstAfter(p) \in Phases
              /\ p \in {"begun"} \cup Pre => FirstAfter(p) \in Pre \cup {"fetch"}
              /\ p \in {"fetch"} \cup Post => FirstAfter(p) \in Post
              /\ FirstAfter(p) = "post" => p = "fetch"
<1>1. p \in {"begun"} \cup Pre => "fetch" \in Following(p)
  BY Places DEF Following, Phases, Pre, Post
<1>2. ASSUME Following(p) # {}
      PROVE  /\ FirstAfter(p) \in Following(p)
             /\ \A r \in Following(p) : Place(FirstAfter(p)) <= Place(r)
  <2>1. \E q \in Following(p) : \A r \in Following(p) : Place(q) <= Place(r)
    <3>1. \A q \in Following(p) : q \in Phases
      BY DEF Following
    <3>2. PICK q \in Following(p) : TRUE
      BY <1>2
    <3>3. CASE "collection-pre" \in Following(p)
      BY <3>1, <3>3, Places DEF Phases, Pre, Post
    <3>4. CASE "collection-pre" \notin Following(p) /\ "pre" \in Following(p)
      BY <3>1, <3>4, Places DEF Phases, Pre, Post
    <3>5. CASE /\ "collection-pre" \notin Following(p) /\ "pre" \notin Following(p)
               /\ "fetch" \in Following(p)
      BY <3>1, <3>5, Places DEF Phases, Pre, Post
    <3>6. CASE /\ Following(p) \subseteq Post
               /\ "post" \in Following(p)
      BY <3>6, Places DEF Post
    <3>7. CASE Following(p) \subseteq {"collection-post"}
      BY <3>2, <3>7, Places
    <3> QED BY <3>1, <3>3, <3>4, <3>5, <3>6, <3>7 DEF Phases, Pre, Post
  <2> QED BY <2>1 DEF FirstAfter
<1>3. ASSUME Following(p) # {}, p \in {"begun"} \cup Pre
      PROVE  FirstAfter(p) \in Pre \cup {"fetch"}
  <2>1. Place(FirstAfter(p)) <= 3 /\ FirstAfter(p) \in Phases
    BY <1>1, <1>2, <1>3, Places DEF Following
  <2> QED BY <2>1, Places DEF Phases, Pre, Post
<1>4. ASSUME Following(p) # {}, p \in {"fetch"} \cup Post
      PROVE  FirstAfter(p) \in Post
  <2>1. Place(p) < Place(FirstAfter(p)) /\ FirstAfter(p) \in Phases
    BY <1>2, <1>4 DEF Following
  <2> QED BY <1>4, <2>1, Places DEF Phases, Pre, Post
<1>5. ASSUME Following(p) # {}, FirstAfter(p) = "post"
      PROVE  p = "fetch"
  <2>1. Place(p) < 4
    BY <1>2, <1>5, Places DEF Following
  <2> QED BY <1>3, <1>5, <2>1, Places DEF Phases, Pre, Post
<1> QED BY <1>1, <1>2, <1>3, <1>4, <1>5 DEF Following

-----------------------------------------------------------------------------
(* The modules of scripts.                                                 *)

\* A merge of two variable maps is one.
LEMMA AssignType ==
  ASSUME NEW base \in [Key -> Nat], NEW delta \in [Key -> Nat]
  PROVE  Assign(base, delta) \in [Key -> Nat]
  BY DEF Assign

\* The fields of the modules of a new slot.
LEMMA FreshModules ==
  /\ Fresh \in Modules /\ Empty \in [Key -> Nat]
  /\ Fresh.loaded = {} /\ Fresh.variables = Empty
  /\ Fresh.delta = [s \in Store |-> Empty] /\ Fresh.base = [s \in Store |-> Empty]
  /\ \A lib \in Library : Fresh.failed[lib] = {}
<1>1. Empty \in [Key -> Nat]
  BY DEF Empty, Absent
<1> QED BY <1>1 DEF Fresh, Modules, Library

\* Every operation on the modules keeps their types.
LEMMA ModuleTypes ==
  ASSUME NEW m \in Modules, NEW injected \in Stores
  PROVE  /\ View(m, injected) \in Stores
         /\ \A stores \in SUBSET Store : Load(m, injected, stores) \in Modules
         /\ \A s \in Store, k \in Key :
              /\ GetFrom(m, injected, s, k) \in Modules
              /\ UnsetIn(m, s, k) \in Modules
              /\ \A v \in Nat : SetIn(m, s, k, v) \in Modules
         /\ \A s \in Store : ClearIn(m, s) \in Modules
         /\ \A lib \in Library :
              /\ Reset(m, lib) \in Modules
              /\ \A t \in Nat : Failed(m, lib, t) \in Modules
<1>1. /\ m.delta \in Stores /\ m.loaded \subseteq Store /\ m.base \in Stores
      /\ m.variables \in [Key -> Nat] /\ m.failed \in [Library -> SUBSET Nat]
  BY DEF Modules, Stores
<1>2. \A s \in Store : Base(m, injected, s) \in [Key -> Nat]
  BY <1>1 DEF Base, Stores
<1>3. View(m, injected) \in Stores
  BY <1>1, <1>2, AssignType DEF View, Stores
<1>4. ASSUME NEW stores \in SUBSET Store PROVE Load(m, injected, stores) \in Modules
  BY <1>1, <1>2 DEF Load, Modules, Stores
<1>5. ASSUME NEW s \in Store, NEW k \in Key
      PROVE  /\ GetFrom(m, injected, s, k) \in Modules
             /\ UnsetIn(m, s, k) \in Modules
             /\ \A v \in Nat : SetIn(m, s, k, v) \in Modules
  <2>1. GetFrom(m, injected, s, k) \in Modules
    BY <1>4 DEF GetFrom
  <2>2. ASSUME NEW v \in Nat PROVE SetIn(m, s, k, v) \in Modules
    BY <1>1 DEF SetIn, Modules, Stores
  <2>3. UnsetIn(m, s, k) \in Modules
    BY <1>1 DEF UnsetIn, Modules, Stores, Absent
  <2> QED BY <2>1, <2>2, <2>3
<1>6. ASSUME NEW s \in Store PROVE ClearIn(m, s) \in Modules
  BY <1>1, FreshModules DEF ClearIn, Modules, Stores
<1>7. ASSUME NEW lib \in Library
      PROVE  /\ Reset(m, lib) \in Modules
             /\ \A t \in Nat : Failed(m, lib, t) \in Modules
  <2>1. Reset(m, lib) \in Modules
    BY <1>1, FreshModules DEF Reset, Modules, Library
  <2>2. ASSUME NEW t \in Nat PROVE Failed(m, lib, t) \in Modules
    BY <1>1 DEF Failed, Modules
  <2> QED BY <2>1, <2>2
<1> QED BY <1>3, <1>4, <1>5, <1>6, <1>7

-----------------------------------------------------------------------------
(* Types and phases.                                                       *)

\* Initially there is nothing.
LEMMA InitTestInv == Init => TestInv
<1> SUFFICES ASSUME Init PROVE TestInv
  OBVIOUS
<1>1. /\ NoStores \in Stores /\ \A s \in Store, k \in Key : NoStores[s][k] = Absent
      /\ Fresh \in Modules
  BY FreshModules DEF NoStores, Stores, Empty
<1>2. ShapeInv
  <2>1. pm \in [Store -> [Key -> Nat]]
        /\ promise \in [kept : Stores, floor : Stores, seen : Stores]
    BY <1>1 DEF Init, Promise, Stores
  <2>2. verdict \in [passed : BOOLEAN, failures : SUBSET Nat]
    BY DEF Init
  <2>3. test \in 0 .. MaxTests /\ first \in 1 .. MaxTests + 1
        /\ calls \in 0 .. MaxCalls /\ input.response \in 0 .. MaxTests
    BY TestRunnerAssumption DEF Init
  <2>4. slot \in Modules /\ scripts \subseteq Pre \cup Post
    BY <1>1 DEF Init, Pre, Post
  <2>5. TypeOK
    BY <2>1, <2>2, <2>3, <2>4 DEF Init, TypeOK
  <2>6. /\ recorded \in Nat /\ recorded <= test /\ first <= test + 1
        /\ phase = "next"
    BY DEF Init
  <2>7. ~running /\ tainted \in BOOLEAN /\ stained \in BOOLEAN /\ due \in BOOLEAN
    BY DEF Init
  <2>8. /\ unreported \subseteq Library /\ inherited \subseteq Library
        /\ missed \subseteq Library
    BY DEF Init
  <2> QED BY <2>1, <2>5, <2>6, <2>7, <2>8 DEF ShapeInv
<1>3. ExchangeInv /\ SlotInv /\ ScopeInv
  BY FreshModules DEF Init, ExchangeInv, SlotInv, ScopeInv, Promise, InScript,
     Library, Post
<1>4. VerdictInv
  BY DEF Init, VerdictInv, VerdictJust, InScript, Pre, Post
<1>5. BleedInv
  BY <1>1, TestRunnerAssumption DEF Init, BleedInv, Since, InScript
<1> QED BY <1>2, <1>3, <1>4, <1>5 DEF TestInv

\* What a verdict becomes is a verdict.
LEMMA JudgedType ==
  ASSUME verdict \in [passed : BOOLEAN, failures : SUBSET Nat],
         NEW outcome \in [passed : BOOLEAN, failures : SUBSET Nat]
  PROVE  Judged(outcome) \in [passed : BOOLEAN, failures : SUBSET Nat]
  BY DEF Judged

\* What a call of a script leaves alone, and what it does not.
LEMMA CallStep ==
  ASSUME ShapeInv, NEW lib \in Library, Call(lib)
  PROVE  /\ InScript /\ UNCHANGED <<outside, inherited>>
         /\ calls' \in 0 .. MaxCalls
         /\ unreported' = unreported \cup {lib}
  BY TestRunnerAssumption DEF Call, ShapeInv, TypeOK

\* The types and the shape of a test are kept.
LEMMA NextShapeInv == ShapeInv /\ [Next]_vars => ShapeInv'
<1> SUFFICES ASSUME ShapeInv, [Next]_vars PROVE ShapeInv'
  OBVIOUS
<1> USE TestRunnerAssumption
<1>0. /\ test \in Nat /\ first \in Nat /\ calls \in Nat /\ slot \in Modules
      /\ pm \in Stores /\ promise.kept \in Stores /\ promise.floor \in Stores
      /\ promise.seen \in Stores /\ Empty \in [Key -> Nat] /\ Fresh \in Modules
      /\ verdict \in [passed : BOOLEAN, failures : SUBSET Nat]
  BY FreshModules DEF ShapeInv, TypeOK, Stores
<1>a. /\ "next" \notin Phases /\ "begun" \notin Phases
      /\ phase \in {"next", "begun"} => ~running
  BY DEF ShapeInv, Phases, Pre, Post
<1>1. CASE RunCollection
  <2>1. pm' \in Stores
    BY <1>0, <1>1 DEF RunCollection, ResetPmState, Stores
  <2>2. promise' \in [kept : Stores, floor : Stores, seen : Stores]
    BY <1>0, <1>1 DEF RunCollection, Promise, Stores
  <2>3. TypeOK'
    BY <1>0, <1>a, <1>1, <2>1 DEF RunCollection, ShapeInv, TypeOK, Stores
  <2>4. phase' = "next" /\ ~running' /\ tainted' \in BOOLEAN
    BY <1>1 DEF RunCollection, ShapeInv, TypeOK
  <2>6. first' <= test' + 1
    BY <1>0, <1>1 DEF RunCollection
  <2>5. UNCHANGED <<test, recorded, unreported, inherited, stained, missed, due>>
    BY <1>1 DEF RunCollection
  <2> QED BY <2>2, <2>3, <2>4, <2>5, <2>6 DEF ShapeInv
<1>2. CASE CollectionDone
  BY <1>a, <1>2 DEF CollectionDone, ShapeInv, TypeOK, book
<1>3. ASSUME NEW own \in SUBSET {"pre", "post"}, NEW modules \in BOOLEAN,
             BeginTest(own, modules)
      PROVE  ShapeInv'
  <2>1. scripts' \subseteq Pre \cup Post /\ slot' \in Modules
        /\ unreported' \subseteq Library
    BY <1>0, <1>3 DEF BeginTest, ShapeInv, TypeOK, Pre, Post
  <2>2. verdict' \in [passed : BOOLEAN, failures : SUBSET Nat]
    BY <1>3 DEF BeginTest
  <2>3. mode' \in {"collection", "single"} /\ test' \in 0 .. MaxTests
        /\ test' = test + 1 /\ running' = FALSE
    BY <1>0, <1>a, <1>3 DEF BeginTest, ShapeInv, TypeOK
  <2>4. TypeOK'
    BY <1>3, <2>1, <2>2, <2>3 DEF BeginTest, ShapeInv, TypeOK
  <2>5. /\ recorded' \in Nat /\ recorded' < test' /\ first' <= test' /\ 1 <= test'
    BY <1>0, <1>3, <2>3 DEF BeginTest, ShapeInv
  <2>6. tainted' \in BOOLEAN /\ stained' \in BOOLEAN /\ due' \in BOOLEAN
    BY <1>3 DEF BeginTest, ShapeInv
  <2>7. UNCHANGED <<inherited, missed, promise>>
    BY <1>3 DEF BeginTest
  <2> QED BY <2>1, <2>3, <2>4, <2>5, <2>6, <2>7 DEF ShapeInv, TypeOK
<1>4. CASE NextPhase
  <2>1. phase' \in Phases /\ phase \in Phases \cup {"begun"}
    BY <1>4, PhaseAfter DEF NextPhase, ShapeInv, TypeOK
  <2>2. slot' \in Modules /\ unreported' \subseteq Library
        /\ inherited' \subseteq Library
        /\ tainted' \in BOOLEAN /\ stained' \in BOOLEAN /\ running' \in BOOLEAN
    BY <1>0, <1>4 DEF NextPhase, StartScript, ReadResponseFile, Checkout, ShapeInv,
       TypeOK
  <2>3. input'.response \in 0 .. MaxTests
    BY <1>0, <1>4 DEF NextPhase, StartScript, ReadResponseFile, Input, ShapeInv,
       TypeOK
  <2>4. /\ UNCHANGED <<mode, scripts, test, first, calls, pm, verdict, recorded,
                       promise, missed, due>>
        /\ mode # "idle" /\ phase # "next" /\ phase' # "next"
    BY <1>4, <2>1 DEF NextPhase, StartScript, ReadResponseFile, ShapeInv, TypeOK,
       Phases, Pre, Post
  <2> QED BY <2>1, <2>2, <2>3, <2>4 DEF ShapeInv, TypeOK
<1>5. CASE TestDone
  BY <1>0, <1>5 DEF TestDone, ShapeInv, TypeOK, book, Phases, Pre, Post
<1>6. CASE Abort
  <2>1. slot' \in Modules /\ unreported' \subseteq Library
        /\ inherited' \subseteq Library /\ missed' \subseteq Library
        /\ running' = FALSE
        /\ promise' \in [kept : Stores, floor : Stores, seen : Stores]
    BY <1>0, <1>6 DEF Abort, Over, Promise, ShapeInv, TypeOK
  <2> QED BY <1>6, <2>1 DEF Abort, ShapeInv, TypeOK
<1>7. CASE PreReturns \/ FetchReturns \/ ReturnOther
  <2>1. verdict' \in [passed : BOOLEAN, failures : SUBSET Nat] /\ due' \in BOOLEAN
    BY <1>0, <1>7, JudgedType DEF PreReturns, FetchReturns, ReturnOther, ShapeInv
  <2>2. /\ inherited' = {} /\ missed' = {} /\ running' = FALSE
        /\ promise' \in [kept : Stores, floor : Stores, seen : Stores]
    BY <1>0, <1>7 DEF PreReturns, FetchReturns, ReturnOther, Over, Promise
  <2>3. UNCHANGED <<mode, scripts, test, first, phase, calls, input, slot, pm,
                    recorded, unreported, tainted, stained>>
    BY <1>7 DEF PreReturns, FetchReturns, ReturnOther
  <2> QED BY <2>1, <2>2, <2>3 DEF ShapeInv, TypeOK
<1>8. ASSUME NEW lib \in Library, ReturnResults(lib) PROVE ShapeInv'
  <2>1. verdict' \in [passed : BOOLEAN, failures : SUBSET Nat] /\ due' \in BOOLEAN
    <3>1. slot.failed[lib] \in SUBSET Nat
      BY <1>0 DEF Modules
    <3> QED BY <1>0, <1>8, <3>1, JudgedType DEF ReturnResults, ShapeInv
  <2>2. pm' \in Stores /\ slot' \in Modules
    BY <1>0, <1>8, ModuleTypes DEF ReturnResults
  <2>3. /\ inherited' = {} /\ missed' = {} /\ running' = FALSE
        /\ promise' \in [kept : Stores, floor : Stores, seen : Stores]
    BY <1>0, <1>8, ModuleTypes DEF ReturnResults, Over, Promise
  <2>4. /\ UNCHANGED <<mode, scripts, test, first, phase, calls, input,
                       recorded, tainted, stained>>
        /\ unreported' \subseteq Library
    BY <1>8 DEF ReturnResults, ShapeInv
  <2> QED BY <2>1, <2>2, <2>3, <2>4 DEF ShapeInv, TypeOK, Stores
<1>9. CASE ScriptCalls
  <2>1. /\ UNCHANGED outside /\ calls' \in 0 .. MaxCalls
        /\ unreported' \subseteq Library /\ inherited' \subseteq Library
    <3>1. ASSUME NEW lib \in Library, Call(lib)
          PROVE  /\ UNCHANGED outside /\ calls' \in 0 .. MaxCalls
                 /\ unreported' \subseteq Library /\ inherited' \subseteq Library
      BY <3>1, CallStep DEF ShapeInv
    <3>2. ASSUME NEW lib \in Library, DropResults(lib)
          PROVE  /\ UNCHANGED outside /\ calls' \in 0 .. MaxCalls
                 /\ unreported' \subseteq Library /\ inherited' \subseteq Library
      BY <1>0, <3>2 DEF DropResults, ShapeInv, TypeOK
    <3>3. "pm" \in Library
      BY DEF Library
    <3> QED BY <1>9, <3>1, <3>2, <3>3 DEF ScriptCalls, Get, Set, Unset, GetVariable,
          Clear, SetVariable, FailAssertion
  <2>2. slot' \in Modules
    <3>1. ASSUME NEW k \in Key, SetVariable(k) PROVE slot' \in Modules
      <4>1. PICK v \in {test, Absent} : slot' = [slot EXCEPT !.variables[k] = v]
        BY <3>1 DEF SetVariable
      <4>2. v \in Nat /\ slot.variables \in [Key -> Nat]
        BY <1>0 DEF Modules, Absent
      <4> QED BY <1>0, <4>1, <4>2 DEF Modules
    <3>2. ASSUME NEW s \in Store, NEW k \in Key,
                 Get(s, k) \/ Set(s, k) \/ Unset(s, k)
          PROVE  slot' \in Modules
      <4>1. CASE Get(s, k)
        BY <1>0, <4>1, ModuleTypes DEF Get
      <4>2. CASE Set(s, k)
        BY <1>0, <4>2, ModuleTypes DEF Set
      <4>3. CASE Unset(s, k)
        BY <1>0, <4>3, ModuleTypes DEF Unset
      <4> QED BY <3>2, <4>1, <4>2, <4>3
    <3>3. ASSUME NEW lib \in Library, FailAssertion(lib) \/ DropResults(lib)
          PROVE  slot' \in Modules
      BY <1>0, <3>3, ModuleTypes DEF FailAssertion, DropResults
    <3>4. CASE GetVariable
      BY <1>0, <3>4, ModuleTypes DEF GetVariable
    <3>5. ASSUME NEW s \in Store, Clear(s) PROVE slot' \in Modules
      BY <1>0, <3>5, ModuleTypes DEF Clear
    <3> QED BY <1>9, <3>1, <3>2, <3>3, <3>4, <3>5 DEF ScriptCalls
  <2>3. /\ promise' \in [kept : Stores, floor : Stores, seen : Stores]
        /\ missed' \subseteq Library
    <3>1. promise \in [kept : Stores, floor : Stores, seen : Stores]
          /\ missed \subseteq Library
      BY DEF ShapeInv
    <3>2. ASSUME NEW s \in Store, NEW k \in Key, NEW v \in Nat,
                 promise' = [promise EXCEPT !.seen[s][k] = v]
          PROVE  promise' \in [kept : Stores, floor : Stores, seen : Stores]
      BY <1>0, <3>1, <3>2 DEF Stores
    <3>3. ASSUME NEW s \in Store, NEW k \in Key,
                 Get(s, k) \/ Set(s, k) \/ Unset(s, k)
          PROVE  promise' \in [kept : Stores, floor : Stores, seen : Stores]
                 /\ missed' \subseteq Library
      <4>1. promise.floor[s][k] \in Nat
        BY <1>0 DEF Stores
      <4> QED BY <1>0, <3>1, <3>2, <3>3, <4>1 DEF Get, Set, Unset
    <3>4. ASSUME NEW s \in Store, Clear(s)
          PROVE  promise' \in [kept : Stores, floor : Stores, seen : Stores]
                 /\ missed' \subseteq Library
      BY <1>0, <3>1, <3>4 DEF Clear, Stores
    <3>5. ASSUME NEW lib \in Library, FailAssertion(lib) \/ DropResults(lib)
          PROVE  promise' \in [kept : Stores, floor : Stores, seen : Stores]
                 /\ missed' \subseteq Library
      BY <1>0, <3>1, <3>5 DEF FailAssertion, DropResults, Promise
    <3> QED BY <1>9, <3>1, <3>3, <3>4, <3>5 DEF ScriptCalls, GetVariable, SetVariable
  <2> QED BY <2>1, <2>2, <2>3 DEF ShapeInv, TypeOK, outside
<1>10. CASE UNCHANGED vars
  BY <1>10 DEF vars, code, book, ShapeInv, TypeOK
<1> QED BY <1>1, <1>2, <1>3, <1>4, <1>5, <1>6, <1>7, <1>8, <1>9, <1>10
     DEF Next, RunnerStep, ScriptReturns

-----------------------------------------------------------------------------
(* What scripts are shown.                                                 *)

\* The exchange stays consistent: the request only changes in pre-scripts,
\* and no pre-script runs after the fetch phase.
LEMMA NextExchangeInv ==
  ShapeInv /\ ExchangeInv /\ [Next]_vars => ExchangeInv'
<1> SUFFICES ASSUME ShapeInv, ExchangeInv, [Next]_vars PROVE ExchangeInv'
  OBVIOUS
<1>0. /\ test \in Nat /\ recorded \in Nat /\ recorded <= test
      /\ "next" \notin Phases /\ "fetch" \notin Post /\ "fetch" \notin Pre
      /\ Pre \cap Post = {} /\ phase \in {"next", "begun"} \cup Phases
      /\ phase \in {"next", "begun"} => ~running /\ phase \notin Post \cup Pre
  BY TestRunnerAssumption DEF ShapeInv, TypeOK, Phases, Pre, Post
<1>1. CASE RunCollection \/ CollectionDone
  BY <1>1 DEF RunCollection, CollectionDone, book, ExchangeInv
<1>2. ASSUME NEW own \in SUBSET {"pre", "post"}, NEW modules \in BOOLEAN,
             BeginTest(own, modules)
      PROVE  ExchangeInv'
  <2>1. ~running' /\ phase' = "begun"
    BY <1>0, <1>2 DEF BeginTest
  <2>2. recorded' # test'
    BY <1>0, <1>2 DEF BeginTest
  <2>3. "begun" \notin Post
    BY DEF Post
  <2> QED BY <2>1, <2>2, <2>3 DEF ExchangeInv
<1>3. CASE NextPhase
  <2>1. /\ phase \in {"begun"} \cup Phases /\ ~running /\ recorded # test
        /\ phase' = FirstAfter(phase) /\ Following(phase) # {}
        /\ UNCHANGED <<test, recorded, request>>
    BY <1>0, <1>3 DEF NextPhase, ShapeInv
  <2>2. phase' \in Post => sent = request
    BY <1>0, <2>1, PhaseAfter DEF ExchangeInv, Phases
  <2>3. CASE StartScript(phase')
    <3>1. running' /\ input' = Input(phase') /\ sent' = sent
      BY <2>3 DEF StartScript
    <3> QED BY <2>1, <2>2, <3>1 DEF Input, ExchangeInv
  <2>4. CASE ReadResponseFile /\ phase' = "fetch"
    BY <1>0, <2>1, <2>4 DEF ReadResponseFile, ExchangeInv
  <2> QED BY <1>3, <2>3, <2>4 DEF NextPhase
<1>4. CASE TestDone
  <2>1. phase \in {"fetch"} \cup Post /\ ~running
    BY <1>0, <1>4, PhaseAfter DEF TestDone, Phases
  <2>2. sent = request
    BY <2>1 DEF ExchangeInv
  <2> QED BY <2>1, <2>2, <1>4 DEF TestDone, book, ExchangeInv
<1>5. CASE Abort
  <2>1. ~running' /\ phase' = "next" /\ recorded' # test'
    BY <1>0, <1>5 DEF Abort, Over, ShapeInv
  <2>2. "next" \notin Post
    BY DEF Post
  <2> QED BY <2>1, <2>2 DEF ExchangeInv
<1>6. CASE PreReturns
  <2>1. ~running' /\ phase' \in Pre /\ recorded' # test'
    BY <1>0, <1>6 DEF PreReturns, Over, ShapeInv
  <2> QED BY <1>0, <2>1 DEF ExchangeInv
<1>7. CASE FetchReturns
  <2>1. ~running' /\ sent' = input.request /\ request' = request
    BY <1>7 DEF FetchReturns, Over
  <2> QED BY <1>7, <2>1 DEF FetchReturns, ExchangeInv
<1>8. CASE ReturnOther \/ \E lib \in Library : ReturnResults(lib)
  <2>1. /\ ~running' /\ phase \in Post
        /\ UNCHANGED <<phase, sent, request, recorded, test>>
    BY <1>8 DEF ReturnOther, ReturnResults, Over
  <2> QED BY <2>1 DEF ExchangeInv
<1>9. CASE ScriptCalls
  <2>1. UNCHANGED outside
    BY <1>9 DEF ScriptCalls, Get, Set, Unset, GetVariable, Clear, SetVariable,
       FailAssertion, DropResults, Call
  <2> QED BY <2>1 DEF outside, ExchangeInv
<1>10. CASE UNCHANGED vars
  BY <1>10 DEF vars, code, ExchangeInv
<1> QED BY <1>1, <1>2, <1>3, <1>4, <1>5, <1>6, <1>7, <1>8, <1>9, <1>10
     DEF Next, RunnerStep, ScriptReturns

\* What sandbox:pm does to its stores does not touch failures, nor the
\* request-scoped variables.
LEMMA StoreCalls ==
  ASSUME NEW m \in Modules, NEW injected \in Stores
  PROVE  /\ \A stores \in SUBSET Store :
              /\ Load(m, injected, stores).failed = m.failed
              /\ Load(m, injected, stores).variables = m.variables
         /\ \A s \in Store, k \in Key, v \in Nat :
              /\ GetFrom(m, injected, s, k).failed = m.failed
              /\ GetFrom(m, injected, s, k).variables = m.variables
              /\ SetIn(m, s, k, v).failed = m.failed
              /\ SetIn(m, s, k, v).variables = m.variables
              /\ UnsetIn(m, s, k).failed = m.failed
              /\ UnsetIn(m, s, k).variables = m.variables
              /\ ClearIn(m, s).failed = m.failed
              /\ ClearIn(m, s).variables = m.variables
  BY DEF Load, GetFrom, SetIn, UnsetIn, ClearIn, Modules

\* Failures do not touch the stores, and are added to those of one library.
LEMMA FailureCalls ==
  ASSUME NEW m \in Modules, NEW lib \in Library, NEW t \in Nat
  PROVE  /\ Failed(m, lib, t).failed[lib] = m.failed[lib] \cup {t}
         /\ \A other \in Library \ {lib} :
              Failed(m, lib, t).failed[other] = m.failed[other]
         /\ Failed(m, lib, t).delta = m.delta /\ Failed(m, lib, t).base = m.base
         /\ Failed(m, lib, t).loaded = m.loaded
         /\ Failed(m, lib, t).variables = m.variables
  BY DEF Failed, Modules

\* Module m has the stores of a new slot.
Clean(m) ==
  /\ m.loaded = {} /\ m.variables = Empty
  /\ m.delta = Fresh.delta /\ m.base = Fresh.base

\* results() forgets the failures of its library and, of sandbox:pm, all else
\* but those of the other.
LEMMA ResetCalls ==
  ASSUME NEW m \in Modules, NEW lib \in Library
  PROVE  /\ Reset(m, lib).failed[lib] = {}
         /\ \A other \in Library \ {lib} :
              Reset(m, lib).failed[other] = m.failed[other]
         /\ lib = "pm" => Clean(Reset(m, lib))
         /\ lib = "test" =>
              /\ Reset(m, lib).delta = m.delta /\ Reset(m, lib).base = m.base
              /\ Reset(m, lib).loaded = m.loaded
              /\ Reset(m, lib).variables = m.variables
  BY FreshModules DEF Reset, Modules, Library, Clean, Fresh

\* Which calls of a script touch what: every one is a use of sandbox:pm that
\* leaves the failures alone, a failed assertion, or results() dropped.
LEMMA CallKinds ==
  ASSUME ShapeInv, ScriptCalls
  PROVE  /\ InScript /\ UNCHANGED outside /\ slot' \in Modules
         /\ \/ /\ unreported' = unreported \cup {"pm"}
               /\ slot'.failed = slot.failed
               /\ UNCHANGED <<inherited, missed>>
            \/ \E lib \in Library : FailAssertion(lib) \/ DropResults(lib)
<1>1. test \in Nat /\ slot \in Modules /\ pm \in Stores /\ "pm" \in Library
  BY DEF ShapeInv, TypeOK, Stores, Library
<1>2. ASSUME NEW s \in Store, NEW k \in Key,
             Get(s, k) \/ Set(s, k) \/ Unset(s, k)
      PROVE  slot' \in Modules /\ slot'.failed = slot.failed
  <2>1. CASE Get(s, k)
    BY <1>1, <2>1, ModuleTypes, StoreCalls DEF Get
  <2>2. CASE Set(s, k)
    BY <1>1, <2>2, ModuleTypes, StoreCalls DEF Set
  <2>3. CASE Unset(s, k)
    BY <1>1, <2>3, ModuleTypes, StoreCalls DEF Unset
  <2> QED BY <1>2, <2>1, <2>2, <2>3
<1>3. ASSUME NEW s \in Store, Clear(s)
      PROVE  slot' \in Modules /\ slot'.failed = slot.failed
  <2>1. slot' = ClearIn(slot, s)
    BY <1>3 DEF Clear
  <2>2. ClearIn(slot, s).failed = slot.failed
    BY <1>1 DEF ClearIn, Modules
  <2> QED BY <1>1, <2>1, <2>2, ModuleTypes
<1>4. ASSUME GetVariable
      PROVE  slot' \in Modules /\ slot'.failed = slot.failed
  BY <1>1, <1>4, ModuleTypes, StoreCalls DEF GetVariable
<1>5. ASSUME NEW k \in Key, SetVariable(k)
      PROVE  slot' \in Modules /\ slot'.failed = slot.failed
  <2>1. PICK v \in {test, Absent} : slot' = [slot EXCEPT !.variables[k] = v]
    BY <1>5 DEF SetVariable
  <2>2. v \in Nat /\ slot.variables \in [Key -> Nat]
    BY <1>1 DEF Modules, Absent
  <2> QED BY <1>1, <2>1, <2>2 DEF Modules
<1>6. ASSUME NEW lib \in Library, FailAssertion(lib) \/ DropResults(lib)
      PROVE  slot' \in Modules /\ InScript /\ UNCHANGED outside
  BY <1>1, <1>6, ModuleTypes DEF FailAssertion, DropResults, Call
<1>7. ASSUME Call("pm")
      PROVE  /\ InScript /\ UNCHANGED <<outside, inherited>>
             /\ unreported' = unreported \cup {"pm"}
  BY <1>7 DEF Call
<1> QED BY <1>2, <1>3, <1>4, <1>5, <1>6, <1>7
     DEF ScriptCalls, Get, Set, Unset, GetVariable, Clear, SetVariable

\* Modules that no one is to answer for are as new.
LEMMA NextSlotInv == ShapeInv /\ SlotInv /\ [Next]_vars => SlotInv'
<1> SUFFICES ASSUME ShapeInv, SlotInv, [Next]_vars PROVE SlotInv'
  OBVIOUS
<1> DEFINE Reported == /\ "test" \notin unreported => slot.failed["test"] = {}
                       /\ "pm" \notin unreported =>
                            slot.failed["pm"] = {} /\ Clean(slot)
           Between == ~running => inherited = {} /\ missed = {}
<1>0. /\ test \in Nat /\ slot \in Modules /\ pm \in Stores
      /\ "pm" \in Library /\ "test" \in Library
      /\ Library = {"pm", "test"}
  BY DEF ShapeInv, TypeOK, Stores, Library
<1>a. Reported /\ Between
  BY DEF SlotInv, Clean
<1>b. ASSUME Reported', Between' PROVE SlotInv'
  BY <1>b DEF SlotInv, Clean
<1>c. ASSUME \/ UNCHANGED <<slot, unreported>>
             \/ slot' = Fresh /\ unreported' = {}
      PROVE  Reported'
  BY <1>a, <1>c, <1>0, FreshModules DEF Clean, Fresh
<1>1. CASE RunCollection \/ CollectionDone \/ TestDone
  BY <1>1, <1>a, <1>b, <1>c DEF RunCollection, CollectionDone, TestDone, book
<1>2. ASSUME NEW own \in SUBSET {"pre", "post"}, NEW modules \in BOOLEAN,
             BeginTest(own, modules)
      PROVE  SlotInv'
  BY <1>2, <1>a, <1>b, <1>c DEF BeginTest
<1>3. CASE NextPhase
  BY <1>3, <1>a, <1>b, <1>c DEF NextPhase, StartScript, ReadResponseFile, Checkout
<1>4. CASE Abort
  BY <1>4, <1>a, <1>b, <1>c DEF Abort, Over
<1>5. CASE PreReturns \/ FetchReturns \/ ReturnOther
  BY <1>5, <1>a, <1>b, <1>c DEF PreReturns, FetchReturns, ReturnOther, Over
<1>6. ASSUME NEW lib \in Library,
             slot' = Reset(slot, lib), unreported' = unreported \ {lib}
      PROVE  Reported'
  <2>1. CASE lib = "pm"
    <3>1. slot'.failed["pm"] = {} /\ Clean(slot')
          /\ slot'.failed["test"] = slot.failed["test"]
      BY <1>0, <1>6, <2>1, ResetCalls
    <3> QED BY <1>0, <1>a, <1>6, <2>1, <3>1 DEF Clean
  <2>2. CASE lib = "test"
    <3>1. /\ slot'.failed["test"] = {} /\ slot'.failed["pm"] = slot.failed["pm"]
          /\ slot'.delta = slot.delta /\ slot'.base = slot.base
          /\ slot'.loaded = slot.loaded /\ slot'.variables = slot.variables
      BY <1>0, <1>6, <2>2, ResetCalls
    <3> QED BY <1>0, <1>a, <1>6, <2>2, <3>1 DEF Clean
  <2> QED BY <1>0, <2>1, <2>2
<1>7. ASSUME NEW lib \in Library, ReturnResults(lib) PROVE SlotInv'
  BY <1>7, <1>a, <1>b, <1>6 DEF ReturnResults, Over
<1>8. ASSUME NEW lib \in Library, FailAssertion(lib) PROVE SlotInv'
  <2>1. /\ unreported' = unreported \cup {lib} /\ running' /\ running
        /\ slot' = Failed(slot, lib, test)
    BY <1>8 DEF FailAssertion, Call, outside, InScript
  <2>2. Reported'
    BY <1>0, <1>a, <2>1, FailureCalls DEF Clean
  <2> QED BY <1>b, <2>1, <2>2
<1>9. ASSUME NEW lib \in Library, DropResults(lib) PROVE SlotInv'
  BY <1>9, <1>a, <1>b, <1>6 DEF DropResults, outside, InScript
<1>10. CASE ScriptCalls
  <2>1. CASE /\ unreported' = unreported \cup {"pm"}
             /\ slot'.failed = slot.failed
             /\ UNCHANGED <<inherited, missed>>
    <3>1. running'
      BY <1>10, CallKinds DEF InScript, outside
    <3>2. Reported'
      BY <1>0, <1>a, <2>1
    <3> QED BY <1>b, <3>1, <3>2
  <2> QED BY <1>8, <1>9, <1>10, <2>1, CallKinds
<1>11. CASE UNCHANGED vars
  BY <1>11, <1>a, <1>b, <1>c DEF vars, code, book
<1> QED BY <1>1, <1>2, <1>3, <1>4, <1>5, <1>7, <1>10, <1>11
     DEF Next, RunnerStep, ScriptReturns

-----------------------------------------------------------------------------
(* Verdicts.                                                               *)

\* The verdict of the test after a script with an outcome.
LEMMA JudgedFields ==
  ASSUME verdict \in [passed : BOOLEAN, failures : SUBSET Nat],
         NEW passed \in BOOLEAN, NEW failures \in SUBSET Nat
  PROVE  LET v == Judged([passed |-> passed, failures |-> failures])
         IN /\ phase = "post" => (v.passed <=> passed) /\ v.failures = failures
            /\ phase # "post" =>
                 /\ v.passed <=> verdict.passed /\ passed
                 /\ v.failures = verdict.failures \cup failures
<1> DEFINE o == [passed |-> passed, failures |-> failures]
<1>1. o.passed = passed /\ o.failures = failures
  OBVIOUS
<1>2. CASE phase = "post"
  BY <1>1, <1>2 DEF Judged
<1>3. CASE phase # "post"
  <2>1. Judged(o) = [passed |-> verdict.passed /\ passed,
                     failures |-> verdict.failures \cup failures]
    BY <1>1, <1>3 DEF Judged
  <2>2. verdict.passed \in BOOLEAN
    OBVIOUS
  <2> QED BY <1>3, <2>1, <2>2
<1> QED BY <1>2, <1>3

\* A verdict follows from the failures the scripts of its test missed.
LEMMA NextVerdictInv ==
  ShapeInv /\ SlotInv /\ SlotInv' /\ ShapeInv' /\ VerdictInv /\ [Next]_vars
    => VerdictInv'
<1> SUFFICES ASSUME ShapeInv, SlotInv, SlotInv', ShapeInv', VerdictInv,
                    [Next]_vars
             PROVE  VerdictInv'
  OBVIOUS
<1> DEFINE Before == \/ phase \in {"begun", "fetch"} \cup Pre
                     \/ phase = "post" /\ running
           Unjudged == ~due /\ verdict = [passed |-> TRUE, failures |-> {}]
           Missed == \A lib \in missed : test \in slot.failed[lib]
           Only == /\ \A lib \in Library \ missed : slot.failed[lib] = {}
                   /\ \A lib \in Library : slot.failed[lib] \subseteq {test}
           Inside == /\ InScript => Missed
                     /\ InScript /\ ~stained => Only
<1>0. /\ test \in Nat /\ slot \in Modules /\ Library = {"pm", "test"}
      /\ missed \subseteq Library /\ unreported \subseteq Library
      /\ verdict \in [passed : BOOLEAN, failures : SUBSET Nat]
      /\ "fetch" \notin Pre \cup Post /\ "post" \in Post /\ "begun" \notin Pre \cup Post
      /\ "next" \notin {"begun", "fetch"} \cup Pre \cup Post
      /\ "collection-post" \notin {"begun", "fetch"} \cup Pre
      /\ "post" \notin {"begun", "fetch"} \cup Pre
      /\ Pre \cap Post = {}
  BY DEF ShapeInv, TypeOK, Library, Pre, Post
<1>a. VerdictJust /\ (Before => Unjudged) /\ Inside
  BY DEF VerdictInv
<1>b. ASSUME VerdictJust', (Before => Unjudged)', Inside' PROVE VerdictInv'
  BY <1>b DEF VerdictInv
<1>c. ASSUME UNCHANGED <<verdict, due, test, stained>> PROVE VerdictJust'
  BY <1>a, <1>c DEF VerdictJust
<1>d. ASSUME ~InScript' PROVE Inside'
  BY <1>d
<1>1. CASE RunCollection \/ CollectionDone \/ TestDone \/ Abort
  <2>1. UNCHANGED <<verdict, due, test, stained>>
    BY <1>1 DEF RunCollection, CollectionDone, TestDone, Abort, book
  <2>2. phase' = "next"
    <3>1. CASE RunCollection \/ CollectionDone
      BY <3>1 DEF RunCollection, CollectionDone, ShapeInv, TypeOK
    <3> QED BY <1>1, <3>1 DEF TestDone, Abort
  <2>3. ~Before' /\ ~InScript'
    BY <1>0, <2>2 DEF InScript
  <2> QED BY <1>b, <1>c, <1>d, <2>1, <2>3
<1>2. ASSUME NEW own \in SUBSET {"pre", "post"}, NEW modules \in BOOLEAN,
             BeginTest(own, modules)
      PROVE  VerdictInv'
  <2>1. /\ phase' = "begun" /\ due' = FALSE
        /\ verdict' = [passed |-> TRUE, failures |-> {}]
    BY <1>2 DEF BeginTest
  <2>2. ~InScript'
    BY <1>0, <2>1 DEF InScript
  <2>3. VerdictJust'
    BY <2>1 DEF VerdictJust
  <2>4. Unjudged'
    BY <2>1
  <2> QED BY <1>b, <1>d, <2>2, <2>3, <2>4
<1>3. CASE NextPhase
  <2>1. /\ phase \in {"begun"} \cup Phases /\ ~running
        /\ phase' = FirstAfter(phase) /\ Following(phase) # {}
        /\ UNCHANGED <<test, verdict, due>>
    BY <1>3 DEF NextPhase, ShapeInv, TypeOK
  <2>2. Before' => Before
    <3>1. phase' \in {"begun", "fetch"} \cup Pre \cup {"post"} =>
            phase \in {"begun", "fetch"} \cup Pre
      BY <1>0, <2>1, PhaseAfter DEF Phases, Post
    <3> QED BY <3>1
  <2>3. CASE phase' = "fetch" /\ ReadResponseFile
    <3>1. UNCHANGED stained /\ ~InScript'
      BY <1>0, <2>3 DEF ReadResponseFile, InScript
    <3> QED BY <1>a, <1>b, <1>c, <1>d, <2>1, <2>2, <3>1
  <2>4. CASE StartScript(phase')
    <3>1. stained' = (stained \/ (phase' # "fetch" /\ unreported' # {}))
      BY <2>4 DEF StartScript
    <3>2. VerdictJust'
      BY <1>a, <2>1, <3>1 DEF VerdictJust
    <3>3. missed' = {}
      BY <2>1, <2>4 DEF StartScript, SlotInv
    <3>4. InScript' /\ ~stained' => unreported' = {}
      BY <1>0, <3>1 DEF InScript
    <3>5. unreported' = {} => \A lib \in Library : slot'.failed[lib] = {}
      BY <1>0 DEF SlotInv
    <3> QED BY <1>a, <1>b, <2>1, <2>2, <3>2, <3>3, <3>4, <3>5
  <2> QED BY <1>3, <2>3, <2>4 DEF NextPhase
<1>4. CASE PreReturns \/ FetchReturns
  <2>1. /\ UNCHANGED <<verdict, due, test, stained, phase>> /\ ~running'
        /\ phase \in Pre \cup {"fetch"}
    BY <1>4 DEF PreReturns, FetchReturns, Over
  <2> QED BY <1>a, <1>b, <1>c, <1>d, <2>1 DEF InScript
<1>5. ASSUME NEW passed \in BOOLEAN, NEW failures \in SUBSET Nat,
             verdict' = Judged([passed |-> passed, failures |-> failures]),
             running, phase \in Post, due' \in BOOLEAN,
             due' => due \/ ~passed,
             ~stained => (due' <=> due \/ ~passed) /\ failures \subseteq {test},
             UNCHANGED <<test, stained>>
      PROVE  VerdictJust'
  <2>1. CASE phase = "post"
    <3>1. (verdict'.passed <=> passed) /\ verdict'.failures = failures
      BY <1>0, <1>5, <2>1, JudgedFields
    <3>2. ~due
      BY <1>a, <1>5, <2>1
    <3> QED BY <1>5, <3>1, <3>2 DEF VerdictJust
  <2>2. CASE phase # "post"
    <3>1. /\ verdict'.passed <=> verdict.passed /\ passed
          /\ verdict'.failures = verdict.failures \cup failures
      BY <1>0, <1>5, <2>2, JudgedFields
    <3>2. due' => ~verdict'.passed
      BY <1>a, <1>5, <3>1 DEF VerdictJust
    <3>3. ASSUME ~stained
          PROVE  (verdict'.passed <=> ~due') /\ verdict'.failures \subseteq {test}
      BY <1>a, <1>5, <3>1, <3>3 DEF VerdictJust
    <3> QED BY <1>5, <3>2, <3>3 DEF VerdictJust
  <2> QED BY <2>1, <2>2
<1>6. ASSUME NEW lib \in Library, ReturnResults(lib) PROVE VerdictInv'
  <2> DEFINE failures == slot.failed[lib]
  <2>1. /\ verdict' = Judged([passed |-> failures = {}, failures |-> failures])
        /\ running /\ phase \in Post /\ ~running' /\ due' = (due \/ lib \in missed)
        /\ UNCHANGED <<test, stained, phase>>
    BY <1>6 DEF ReturnResults, Over
  <2>2. failures \in SUBSET Nat /\ (failures = {}) \in BOOLEAN
    BY <1>0 DEF Modules
  <2>3. lib \in missed => failures # {}
    BY <1>a, <2>1 DEF InScript
  <2>4. ~stained => (lib \in missed <=> failures # {}) /\ failures \subseteq {test}
    BY <1>a, <2>1, <2>3 DEF InScript
  <2>5. VerdictJust'
    <3> HIDE DEF failures
    <3> QED BY <1>5, <2>1, <2>2, <2>3, <2>4
  <2>6. ~Before' /\ ~InScript'
    BY <1>0, <2>1 DEF InScript
  <2> QED BY <1>b, <1>d, <2>5, <2>6
<1>7. CASE ReturnOther
  <2>1. /\ running /\ phase \in Post /\ ~running'
        /\ UNCHANGED <<test, stained, phase>>
    BY <1>7 DEF ReturnOther, Over
  <2>2. ~Before' /\ ~InScript'
    BY <1>0, <2>1 DEF InScript
  <2>3. VerdictJust'
    <3>1. CASE UNCHANGED <<verdict, due>>
      BY <1>c, <2>1, <3>1
    <3>2. ASSUME NEW passed \in BOOLEAN,
                 verdict' = Judged([passed |-> passed, failures |-> {}]),
                 due' = (due \/ ~passed)
          PROVE  VerdictJust'
      <4>1. due' \in BOOLEAN /\ (due' <=> due \/ ~passed)
        BY <3>2
      <4>2. {} \in SUBSET Nat /\ {} \subseteq {test}
        OBVIOUS
      <4> QED BY <1>5, <2>1, <3>2, <4>1, <4>2
    <3> QED BY <1>7, <3>1, <3>2 DEF ReturnOther
  <2> QED BY <1>b, <1>d, <2>2, <2>3
<1>8. CASE ScriptCalls
  <2>1. /\ InScript /\ InScript'
        /\ UNCHANGED <<verdict, due, test, stained, phase, running>>
    BY <1>8, CallKinds DEF outside, InScript
  <2>2. ASSUME Inside' PROVE VerdictInv'
    BY <1>a, <1>b, <1>c, <2>1, <2>2
  <2>3. CASE slot'.failed = slot.failed /\ UNCHANGED missed
    BY <1>a, <2>1, <2>2, <2>3
  <2>4. ASSUME NEW lib \in Library, FailAssertion(lib) PROVE VerdictInv'
    <3>1. slot' = Failed(slot, lib, test) /\ missed' = missed \cup {lib}
      BY <2>4 DEF FailAssertion
    <3>2. /\ slot'.failed[lib] = slot.failed[lib] \cup {test}
          /\ \A other \in Library \ {lib} :
               slot'.failed[other] = slot.failed[other]
      BY <1>0, <3>1, FailureCalls
    <3> QED BY <1>0, <1>a, <2>1, <2>2, <3>1, <3>2
  <2>5. ASSUME NEW lib \in Library, DropResults(lib) PROVE VerdictInv'
    <3>1. slot' = Reset(slot, lib) /\ missed' = missed \ {lib}
      BY <2>5 DEF DropResults
    <3>2. /\ slot'.failed[lib] = {}
          /\ \A other \in Library \ {lib} :
               slot'.failed[other] = slot.failed[other]
      BY <1>0, <3>1, ResetCalls
    <3> QED BY <1>0, <1>a, <2>1, <2>2, <3>1, <3>2
  <2> QED BY <1>8, <2>3, <2>4, <2>5, CallKinds
<1>9. CASE UNCHANGED vars
  BY <1>9, <1>a, <1>b, <1>c DEF vars, code, book, InScript
<1> QED BY <1>1, <1>2, <1>3, <1>4, <1>6, <1>7, <1>8, <1>9
     DEF Next, RunnerStep, ScriptReturns

-----------------------------------------------------------------------------
(* Scopes of variables.                                                    *)

\* The stores that scripts fall back to.
Bases(m, injected) == [s \in Store |-> Base(m, injected, s)]

\* What each use of the stores does to what scripts see and fall back to:
\* what the documentation says it does.
LEMMA StoreUse ==
  ASSUME NEW m \in Modules, NEW injected \in Stores
  PROVE  /\ \A stores \in SUBSET Store :
              /\ Bases(Load(m, injected, stores), injected) = Bases(m, injected)
              /\ View(Load(m, injected, stores), injected) = View(m, injected)
         /\ \A s \in Store, k \in Key, v \in Nat \ {Absent} :
              /\ Bases(SetIn(m, s, k, v), injected) = Bases(m, injected)
              /\ View(SetIn(m, s, k, v), injected)
                   = [View(m, injected) EXCEPT ![s][k] = v]
         /\ \A s \in Store, k \in Key :
              /\ Bases(UnsetIn(m, s, k), injected) = Bases(m, injected)
              /\ View(UnsetIn(m, s, k), injected)
                   = [View(m, injected) EXCEPT ![s][k] = Bases(m, injected)[s][k]]
         /\ \A s \in Store :
              /\ Bases(ClearIn(m, s), injected)
                   = [Bases(m, injected) EXCEPT ![s] = Empty]
              /\ View(ClearIn(m, s), injected) = [View(m, injected) EXCEPT ![s] = Empty]
<1>0. /\ m.delta \in Stores /\ m.loaded \subseteq Store /\ m.base \in Stores
      /\ \A s \in Store : Base(m, injected, s) \in [Key -> Nat]
      /\ \A s \in Store : m.delta[s] \in [Key -> Nat]
  BY DEF Modules, Stores, Base
<1>1. \A s \in Store : View(m, injected)[s] = Assign(Base(m, injected, s), m.delta[s])
  BY DEF View
<1>2. ASSUME NEW stores \in SUBSET Store
      PROVE  /\ Bases(Load(m, injected, stores), injected) = Bases(m, injected)
             /\ View(Load(m, injected, stores), injected) = View(m, injected)
  <2> DEFINE n == Load(m, injected, stores)
  <2>1. /\ n.loaded = m.loaded \cup stores /\ n.delta = m.delta
        /\ n.base = [s \in Store |-> IF s \in stores THEN Base(m, injected, s)
                                     ELSE m.base[s]]
    BY <1>0 DEF Load, Modules, Stores
  <2> HIDE DEF n
  <2>2. \A s \in Store : Base(n, injected, s) = Base(m, injected, s)
    BY <2>1 DEF Base
  <2>3. Bases(n, injected) = Bases(m, injected) /\ View(n, injected) = View(m, injected)
    BY <2>1, <2>2 DEF Bases, View
  <2> QED BY <2>3 DEF n
<1>3. ASSUME NEW s \in Store, NEW k \in Key, NEW v \in Nat, NEW n \in Modules,
             n.loaded = m.loaded, n.base = m.base,
             n.delta = [m.delta EXCEPT ![s][k] = v]
      PROVE  /\ Bases(n, injected) = Bases(m, injected)
             /\ View(n, injected) = [View(m, injected) EXCEPT ![s][k] =
                  IF v # Absent THEN v ELSE Base(m, injected, s)[k]]
  <2>1. \A t \in Store : Base(n, injected, t) = Base(m, injected, t)
    BY <1>3 DEF Base
  <2>2. \A t \in Store \ {s} : n.delta[t] = m.delta[t]
    BY <1>0, <1>3 DEF Stores
  <2>3. n.delta[s] = [m.delta[s] EXCEPT ![k] = v]
    BY <1>0, <1>3 DEF Stores
  <2>4. Assign(Base(m, injected, s), n.delta[s]) =
          [Assign(Base(m, injected, s), m.delta[s]) EXCEPT ![k] =
             IF v # Absent THEN v ELSE Base(m, injected, s)[k]]
    BY <1>0, <2>3 DEF Assign
  <2>5. View(n, injected) = [View(m, injected) EXCEPT ![s] =
          [View(m, injected)[s] EXCEPT ![k] =
             IF v # Absent THEN v ELSE Base(m, injected, s)[k]]]
    BY <2>1, <2>2, <2>4 DEF View
  <2>6. Bases(n, injected) = Bases(m, injected)
    BY <2>1 DEF Bases
  <2> QED BY <2>5, <2>6
<1>4. ASSUME NEW s \in Store, NEW k \in Key, NEW v \in Nat \ {Absent}
      PROVE  /\ Bases(SetIn(m, s, k, v), injected) = Bases(m, injected)
             /\ View(SetIn(m, s, k, v), injected)
                  = [View(m, injected) EXCEPT ![s][k] = v]
  <2> DEFINE n == SetIn(m, s, k, v)
  <2>1. /\ n.loaded = m.loaded /\ n.base = m.base
        /\ n.delta = [m.delta EXCEPT ![s][k] = v]
    BY DEF SetIn, Modules
  <2>2. n \in Modules
    BY ModuleTypes
  <2> HIDE DEF n
  <2>3. /\ Bases(n, injected) = Bases(m, injected)
        /\ View(n, injected) = [View(m, injected) EXCEPT ![s][k] = v]
    BY <1>3, <2>1, <2>2
  <2> QED BY <2>3 DEF n
<1>5. ASSUME NEW s \in Store, NEW k \in Key
      PROVE  /\ Bases(UnsetIn(m, s, k), injected) = Bases(m, injected)
             /\ View(UnsetIn(m, s, k), injected)
                  = [View(m, injected) EXCEPT ![s][k] = Bases(m, injected)[s][k]]
  <2> DEFINE n == UnsetIn(m, s, k)
  <2>1. /\ n.loaded = m.loaded /\ n.base = m.base
        /\ n.delta = [m.delta EXCEPT ![s][k] = Absent]
    BY DEF UnsetIn, Modules
  <2>2. n \in Modules /\ Absent \in Nat
    BY ModuleTypes DEF Absent
  <2> HIDE DEF n
  <2>3. /\ Bases(n, injected) = Bases(m, injected)
        /\ View(n, injected)
             = [View(m, injected) EXCEPT ![s][k] = Base(m, injected, s)[k]]
    BY <1>3, <2>1, <2>2
  <2> QED BY <2>3 DEF n, Bases
<1>6. ASSUME NEW s \in Store
      PROVE  /\ Bases(ClearIn(m, s), injected)
                  = [Bases(m, injected) EXCEPT ![s] = Empty]
             /\ View(ClearIn(m, s), injected) = [View(m, injected) EXCEPT ![s] = Empty]
  <2> DEFINE n == ClearIn(m, s)
  <2>1. /\ n.loaded = m.loaded \cup {s} /\ n.base = [m.base EXCEPT ![s] = Empty]
        /\ n.delta = [m.delta EXCEPT ![s] = Empty]
    BY DEF ClearIn, Modules
  <2> HIDE DEF n
  <2>2. /\ Base(n, injected, s) = Empty /\ n.delta[s] = Empty
        /\ \A t \in Store \ {s} : /\ Base(n, injected, t) = Base(m, injected, t)
                                  /\ n.delta[t] = m.delta[t]
    BY <1>0, <2>1 DEF Base, Stores
  <2>3. Assign(Empty, Empty) = Empty
    BY DEF Assign, Empty
  <2>4. /\ Bases(n, injected) = [Bases(m, injected) EXCEPT ![s] = Empty]
        /\ View(n, injected) = [View(m, injected) EXCEPT ![s] = Empty]
    BY <2>2, <2>3 DEF Bases, View
  <2> QED BY <2>4 DEF n
<1> QED BY <1>2, <1>4, <1>5, <1>6

\* Clean modules show the stores that were injected.
LEMMA CleanView ==
  ASSUME NEW m \in Modules, NEW injected \in Stores, Clean(m)
  PROVE  View(m, injected) = injected /\ Bases(m, injected) = injected
<1>1. \A s \in Store : Base(m, injected, s) = injected[s] /\ m.delta[s] = Empty
  BY FreshModules DEF Clean, Base
<1>2. \A s \in Store : Assign(injected[s], Empty) = injected[s]
  BY DEF Assign, Empty, Stores
<1>3. View(m, injected) = [s \in Store |-> injected[s]]
  BY <1>1, <1>2 DEF View
<1>4. Bases(m, injected) = [s \in Store |-> injected[s]]
  BY <1>1 DEF Bases
<1> QED BY <1>3, <1>4 DEF Stores

\* The stores between scripts, and in a script, are as promised.
LEMMA NextScopeInv ==
  ShapeInv /\ ShapeInv' /\ SlotInv /\ SlotInv' /\ ScopeInv /\ [Next]_vars
    => ScopeInv'
<1> SUFFICES ASSUME ShapeInv, ShapeInv', SlotInv, SlotInv', ScopeInv, [Next]_vars
             PROVE  ScopeInv'
  OBVIOUS
<1> DEFINE Kept == promise = Promise(pm)
           AsPromised == /\ promise.floor = Bases(slot, pm)
                         /\ promise.seen = View(slot, pm)
                         /\ \A k \in Key : slot.variables[k] \in {Absent, test}
<1>0. /\ test \in Nat /\ slot \in Modules /\ slot' \in Modules /\ pm \in Stores
      /\ pm' \in Stores /\ "pm" \in Library /\ "test" \in Library
      /\ Library = {"pm", "test"}
      /\ promise \in [kept : Stores, floor : Stores, seen : Stores]
  BY DEF ShapeInv, TypeOK, Stores, Library
<1>a. /\ promise.kept = pm /\ (~InScript => Kept)
      /\ InScript /\ "pm" \notin inherited => AsPromised
  BY DEF ScopeInv, Bases
<1>b. ASSUME promise'.kept = pm', (~InScript => Kept)',
             (InScript /\ "pm" \notin inherited => AsPromised)'
      PROVE  ScopeInv'
  BY <1>b DEF ScopeInv, Bases
<1>c. ASSUME ~InScript', Kept' PROVE ScopeInv'
  <2>1. promise'.kept = pm'
    BY <1>c DEF Promise
  <2> QED BY <1>b, <1>c, <2>1
<1>d. ASSUME ~running', promise' = Promise(pm') PROVE ScopeInv'
  BY <1>c, <1>d DEF InScript
<1>1. CASE RunCollection
  <2>1. ~running'
    BY <1>1 DEF RunCollection, ShapeInv, TypeOK
  <2>2. promise' = Promise(pm')
    BY <1>1, <1>a DEF RunCollection, ResetPmState
  <2> QED BY <1>d, <2>1, <2>2
<1>2. CASE CollectionDone \/ TestDone
  <2>1. UNCHANGED <<promise, pm, running>> /\ ~running
    BY <1>2 DEF CollectionDone, TestDone, book, ShapeInv, TypeOK, Phases, Pre, Post
  <2> QED BY <1>a, <1>d, <2>1 DEF InScript
<1>3. ASSUME NEW own \in SUBSET {"pre", "post"}, NEW modules \in BOOLEAN,
             BeginTest(own, modules)
      PROVE  ScopeInv'
  <2>1. UNCHANGED <<promise, pm, running>> /\ ~running
    BY <1>3 DEF BeginTest, ShapeInv, Phases, Pre, Post
  <2> QED BY <1>a, <1>d, <2>1 DEF InScript
<1>4. CASE NextPhase
  <2>1. ~running /\ UNCHANGED <<promise, pm, test>>
    BY <1>4 DEF NextPhase, StartScript, ReadResponseFile
  <2>2. Kept' /\ promise'.kept = pm'
    BY <1>a, <2>1 DEF InScript
  <2>3. CASE ReadResponseFile
    BY <1>d, <2>1, <2>2, <2>3 DEF ReadResponseFile
  <2>4. CASE StartScript(phase')
    <3>1. ASSUME "pm" \notin inherited' PROVE AsPromised'
      <4>1. Clean(slot')
        BY <2>4, <3>1 DEF StartScript, SlotInv, Clean
      <4>2. View(slot', pm') = pm' /\ Bases(slot', pm') = pm'
        BY <1>0, <4>1, CleanView
      <4>3. \A k \in Key : slot'.variables[k] = Absent
        BY <4>1 DEF Clean, Empty
      <4> QED BY <2>2, <4>2, <4>3 DEF Promise
    <3> QED BY <1>b, <2>2, <3>1
  <2> QED BY <1>4, <2>3, <2>4 DEF NextPhase
<1>5. CASE Abort
  <2>1. UNCHANGED pm
    BY <1>5 DEF Abort
  <2>2. ~running' /\ promise' = Promise(pm)
    BY <1>5, <1>a DEF Abort, Over, InScript
  <2> QED BY <1>d, <2>1, <2>2
<1>6. CASE PreReturns \/ FetchReturns \/ ReturnOther
  <2>1. ~running' /\ promise' = Promise(pm) /\ pm' = pm
    BY <1>6, <1>a DEF PreReturns, FetchReturns, ReturnOther, Over
  <2> QED BY <1>d, <2>1
<1>7. ASSUME NEW lib \in Library, ReturnResults(lib) PROVE ScopeInv'
  <2>1. ~running' /\ InScript
    BY <1>7 DEF ReturnResults, Over, InScript
  <2>2. promise' = Promise(pm')
    <3>1. CASE lib = "test"
      BY <1>7, <1>a, <3>1 DEF ReturnResults, Over
    <3>2. CASE lib = "pm"
      <4>1. pm' = View(slot, pm)
        BY <1>7, <3>2 DEF ReturnResults
      <4>2. "pm" \notin inherited => promise.seen = View(slot, pm)
        BY <1>a, <2>1
      <4>3. promise' = Promise(IF "pm" \in inherited THEN View(slot, pm)
                               ELSE promise.seen)
        BY <1>7, <3>2 DEF ReturnResults, Over
      <4> QED BY <4>1, <4>2, <4>3
    <3> QED BY <1>0, <3>1, <3>2
  <2> QED BY <1>d, <2>1, <2>2
<1>8. CASE ScriptCalls
  <2>1. InScript /\ InScript' /\ UNCHANGED <<pm, test>>
    BY <1>8, CallKinds DEF outside, InScript
  <2>2. 1 <= test /\ test # Absent
    BY <1>0, <2>1 DEF InScript, ShapeInv, Pre, Post, Absent
  <2>3. ASSUME promise'.kept = promise.kept,
               "pm" \notin inherited' => AsPromised'
        PROVE  ScopeInv'
    BY <1>a, <1>b, <2>1, <2>3
  <2>4. ASSUME inherited' = inherited, promise'.kept = promise.kept,
               "pm" \notin inherited => AsPromised'
        PROVE  ScopeInv'
    BY <2>3, <2>4
  <2> DEFINE InOrder == "pm" \notin inherited
  <2>5. InOrder => AsPromised
    BY <1>a, <2>1
  <2>6. ASSUME NEW s \in Store, NEW k \in Key, Get(s, k) PROVE ScopeInv'
    <3>1. slot' = slot \/ slot' = Load(slot, pm, {s})
      BY <2>6 DEF Get, GetFrom
    <3>2. UNCHANGED <<promise, inherited>>
      BY <2>6 DEF Get, Call
    <3>3. /\ Bases(slot', pm) = Bases(slot, pm) /\ View(slot', pm) = View(slot, pm)
          /\ slot'.variables = slot.variables
      BY <1>0, <3>1, StoreUse, StoreCalls
    <3> QED BY <2>1, <2>4, <2>5, <3>2, <3>3
  <2>7. CASE GetVariable
    <3>1. slot' = Load(slot, pm, Store) /\ UNCHANGED <<promise, inherited>>
      BY <2>7 DEF GetVariable, Call
    <3>2. /\ Bases(slot', pm) = Bases(slot, pm) /\ View(slot', pm) = View(slot, pm)
          /\ slot'.variables = slot.variables
      BY <1>0, <3>1, StoreUse, StoreCalls
    <3> QED BY <2>1, <2>4, <2>5, <3>1, <3>2
  <2>8. ASSUME NEW s \in Store, NEW k \in Key, Set(s, k) PROVE ScopeInv'
    <3>1. /\ slot' = SetIn(slot, s, k, test) /\ inherited' = inherited
          /\ promise' = [promise EXCEPT !.seen[s][k] = test]
      BY <2>8 DEF Set, Call
    <3>2. /\ promise'.kept = promise.kept /\ promise'.floor = promise.floor
          /\ promise'.seen = [promise.seen EXCEPT ![s][k] = test]
      BY <1>0, <3>1
    <3>3. /\ Bases(slot', pm) = Bases(slot, pm)
          /\ View(slot', pm) = [View(slot, pm) EXCEPT ![s][k] = test]
          /\ slot'.variables = slot.variables
      BY <1>0, <2>2, <3>1, StoreUse, StoreCalls
    <3> QED BY <2>1, <2>4, <2>5, <3>1, <3>2, <3>3
  <2>9. ASSUME NEW s \in Store, NEW k \in Key, Unset(s, k) PROVE ScopeInv'
    <3>1. /\ slot' = UnsetIn(slot, s, k) /\ inherited' = inherited
          /\ promise' = [promise EXCEPT !.seen[s][k] = promise.floor[s][k]]
      BY <2>9 DEF Unset, Call
    <3>2. /\ promise'.kept = promise.kept /\ promise'.floor = promise.floor
          /\ promise'.seen = [promise.seen EXCEPT ![s][k] = promise.floor[s][k]]
      BY <1>0, <3>1
    <3>3. /\ Bases(slot', pm) = Bases(slot, pm)
          /\ View(slot', pm)
               = [View(slot, pm) EXCEPT ![s][k] = Bases(slot, pm)[s][k]]
          /\ slot'.variables = slot.variables
      BY <1>0, <3>1, StoreUse, StoreCalls DEF Absent
    <3> QED BY <2>1, <2>4, <2>5, <3>1, <3>2, <3>3
  <2>10. ASSUME NEW s \in Store, Clear(s) PROVE ScopeInv'
    <3>1. /\ slot' = ClearIn(slot, s) /\ inherited' = inherited
          /\ promise' = [promise EXCEPT !.seen[s] = Empty, !.floor[s] = Empty]
      BY <2>10 DEF Clear, Call
    <3>2. /\ promise'.kept = promise.kept
          /\ promise'.floor = [promise.floor EXCEPT ![s] = Empty]
          /\ promise'.seen = [promise.seen EXCEPT ![s] = Empty]
      BY <1>0, <3>1
    <3>3. /\ Bases(slot', pm) = [Bases(slot, pm) EXCEPT ![s] = Empty]
          /\ View(slot', pm) = [View(slot, pm) EXCEPT ![s] = Empty]
      BY <1>0, <3>1, StoreUse
    <3>4. slot'.variables = slot.variables
      BY <1>0, <3>1 DEF ClearIn, Modules
    <3> QED BY <2>1, <2>4, <2>5, <3>1, <3>2, <3>3, <3>4
  <2>11. ASSUME NEW k \in Key, SetVariable(k) PROVE ScopeInv'
    <3>1. PICK v \in {test, Absent} : slot' = [slot EXCEPT !.variables[k] = v]
      BY <2>11 DEF SetVariable
    <3>2. UNCHANGED <<promise, inherited>>
      BY <2>11 DEF SetVariable, Call
    <3>3. /\ slot'.delta = slot.delta /\ slot'.base = slot.base
          /\ slot'.loaded = slot.loaded
          /\ slot'.variables = [slot.variables EXCEPT ![k] = v]
      BY <1>0, <3>1 DEF Modules
    <3>4. Bases(slot', pm) = Bases(slot, pm) /\ View(slot', pm) = View(slot, pm)
      BY <3>3 DEF Bases, View, Base
    <3>5. (\A x \in Key : slot.variables[x] \in {Absent, test}) =>
            \A x \in Key : slot'.variables[x] \in {Absent, test}
      BY <1>0, <3>3 DEF Modules
    <3> QED BY <2>1, <2>4, <2>5, <3>2, <3>4, <3>5
  <2>12. ASSUME NEW lib \in Library, FailAssertion(lib) PROVE ScopeInv'
    <3>1. slot' = Failed(slot, lib, test) /\ UNCHANGED <<promise, inherited>>
      BY <2>12 DEF FailAssertion, Call
    <3>2. /\ slot'.delta = slot.delta /\ slot'.base = slot.base
          /\ slot'.loaded = slot.loaded /\ slot'.variables = slot.variables
      BY <1>0, <3>1, FailureCalls
    <3>3. Bases(slot', pm) = Bases(slot, pm) /\ View(slot', pm) = View(slot, pm)
      BY <3>2 DEF Bases, View, Base
    <3> QED BY <2>1, <2>4, <2>5, <3>1, <3>2, <3>3
  <2>13. CASE DropResults("test")
    <3>1. slot' = Reset(slot, "test") /\ UNCHANGED promise
          /\ inherited' = inherited \ {"test"}
      BY <2>13 DEF DropResults
    <3>2. /\ slot'.delta = slot.delta /\ slot'.base = slot.base
          /\ slot'.loaded = slot.loaded /\ slot'.variables = slot.variables
      BY <1>0, <3>1, ResetCalls
    <3>3. Bases(slot', pm) = Bases(slot, pm) /\ View(slot', pm) = View(slot, pm)
      BY <3>2 DEF Bases, View, Base
    <3> QED BY <2>1, <2>3, <2>5, <3>1, <3>2, <3>3
  <2>14. CASE DropResults("pm")
    <3>1. slot' = Reset(slot, "pm") /\ promise' = Promise(promise.kept)
      BY <2>14 DEF DropResults
    <3>2. Clean(slot')
      BY <1>0, <3>1, ResetCalls
    <3>3. View(slot', pm) = pm /\ Bases(slot', pm) = pm
      BY <1>0, <3>2, CleanView
    <3>4. \A k \in Key : slot'.variables[k] = Absent
      BY <3>2 DEF Clean, Empty
    <3>5. /\ promise'.kept = promise.kept /\ promise'.floor = pm
          /\ promise'.seen = pm
      BY <1>a, <3>1 DEF Promise
    <3> QED BY <2>1, <2>3, <3>3, <3>4, <3>5
  <2> QED BY <1>0, <1>8, <2>6, <2>7, <2>8, <2>9, <2>10, <2>11, <2>12, <2>13, <2>14
       DEF ScriptCalls
<1>9. CASE UNCHANGED vars
  BY <1>9, <1>a, <1>b DEF vars, code, book, InScript
<1> QED BY <1>1, <1>2, <1>3, <1>4, <1>5, <1>6, <1>7, <1>8, <1>9
     DEF Next, RunnerStep, ScriptReturns

-----------------------------------------------------------------------------
(* Variables of an earlier collection.                                     *)

\* What scripts see is not older than the reset if its parts are not.
LEMMA SinceView ==
  ASSUME NEW m \in Modules, NEW injected \in Stores,
         Since(injected), Since(m.delta), Since(m.base)
  PROVE  /\ Since(View(m, injected))
         /\ \A s \in Store : s \in Resettable => \A k \in Key :
              Base(m, injected, s)[k] = Absent \/ Base(m, injected, s)[k] >= first
<1>1. \A s \in Resettable, k \in Key :
        Base(m, injected, s)[k] = Absent \/ Base(m, injected, s)[k] >= first
  BY DEF Since, Base
<1>2. \A s \in Store, k \in Key : View(m, injected)[s][k] =
        IF m.delta[s][k] # Absent THEN m.delta[s][k] ELSE Base(m, injected, s)[k]
  BY DEF View, Assign
<1> QED BY <1>1, <1>2, TestRunnerAssumption DEF Since

\* Emptiness is not older than anything.
LEMMA SinceEmpty ==
  Since([s \in Store |-> Empty])
  BY TestRunnerAssumption DEF Since, Empty

\* No store that is reset between collections shows a value of an earlier one.
LEMMA NextBleedInv ==
  ShapeInv /\ ShapeInv' /\ SlotInv /\ SlotInv' /\ BleedInv /\ [Next]_vars
    => BleedInv'
<1> SUFFICES ASSUME ShapeInv, ShapeInv', SlotInv, SlotInv', BleedInv, [Next]_vars
             PROVE  BleedInv'
  OBVIOUS
<1> DEFINE Inside == Since(slot.delta) /\ Since(slot.base)
<1>0. /\ test \in Nat /\ first \in Nat /\ slot \in Modules /\ slot' \in Modules
      /\ pm \in Stores /\ pm' \in Stores /\ "pm" \in Library
      /\ Library = {"pm", "test"} /\ Resettable \subseteq Store
  BY TestRunnerAssumption DEF ShapeInv, TypeOK, Stores, Library
<1>a. ~tainted => Since(pm) /\ (InScript => Inside)
  BY DEF BleedInv
<1>b. ASSUME UNCHANGED <<first, pm>>, tainted => tainted',
             ~tainted' /\ InScript' => Inside'
      PROVE  BleedInv'
  BY <1>a, <1>b DEF BleedInv, Since
<1>1. CASE RunCollection
  <2>1. ~running'
    BY <1>1 DEF RunCollection, ShapeInv, TypeOK
  <2>2. Since(pm)'
    BY <1>0, <1>1, SinceEmpty DEF RunCollection, ResetPmState, Since, Empty
  <2> QED BY <2>1, <2>2 DEF BleedInv, InScript
<1>2. CASE CollectionDone \/ TestDone
  <2>1. UNCHANGED <<first, pm, tainted>> /\ ~running'
    BY <1>2 DEF CollectionDone, TestDone, book, ShapeInv, TypeOK, Phases, Pre, Post
  <2> QED BY <1>b, <2>1 DEF InScript
<1>3. ASSUME NEW own \in SUBSET {"pre", "post"}, NEW modules \in BOOLEAN,
             BeginTest(own, modules)
      PROVE  BleedInv'
  <2>1. UNCHANGED <<first, pm, tainted>> /\ ~running'
    BY <1>3 DEF BeginTest, ShapeInv, Phases, Pre, Post
  <2> QED BY <1>b, <2>1 DEF InScript
<1>4. CASE NextPhase
  <2>1. UNCHANGED <<first, pm>> /\ ~running
    BY <1>4 DEF NextPhase
  <2>2. CASE ReadResponseFile
    BY <1>b, <2>1, <2>2 DEF ReadResponseFile, InScript
  <2>3. CASE StartScript(phase')
    <3>1. tainted' = (tainted \/ (phase' # "fetch" /\ "pm" \in unreported'))
      BY <2>3 DEF StartScript
    <3>2. ASSUME ~tainted', InScript' PROVE Inside'
      <4>1. "pm" \notin unreported'
        BY <3>1, <3>2 DEF InScript, Pre, Post
      <4>2. Clean(slot')
        BY <4>1 DEF SlotInv, Clean
      <4>3. /\ slot'.delta = [s \in Store |-> Empty]
            /\ slot'.base = [s \in Store |-> Empty] /\ first' = first
        BY <2>1, <4>2, FreshModules DEF Clean
      <4> QED BY <4>3, SinceEmpty DEF Since
    <3> QED BY <1>b, <2>1, <3>1, <3>2
  <2> QED BY <1>4, <2>2, <2>3 DEF NextPhase
<1>5. CASE Abort \/ PreReturns \/ FetchReturns \/ ReturnOther
  <2>1. UNCHANGED <<first, pm, tainted>> /\ ~running'
    BY <1>5 DEF Abort, PreReturns, FetchReturns, ReturnOther, Over
  <2> QED BY <1>b, <2>1 DEF InScript
<1>6. ASSUME NEW lib \in Library, ReturnResults(lib) PROVE BleedInv'
  <2>1. /\ UNCHANGED <<first, tainted>> /\ ~running' /\ InScript
        /\ pm' = IF lib = "pm" THEN View(slot, pm) ELSE pm
    BY <1>6 DEF ReturnResults, Over, InScript
  <2>2. ~tainted => Since(pm')
    BY <1>0, <1>a, <2>1, SinceView
  <2> QED BY <2>1, <2>2 DEF BleedInv, InScript, Since
<1>7. CASE ScriptCalls
  <2>1. /\ InScript /\ InScript' /\ UNCHANGED <<first, pm, tainted, test>>
        /\ first <= test
    BY <1>7, CallKinds DEF outside, InScript, ShapeInv, Pre, Post
  <2>2. ASSUME ~tainted /\ Inside => Since(slot'.delta) /\ Since(slot'.base)
        PROVE  BleedInv'
    BY <1>a, <1>b, <2>1, <2>2 DEF Since
  <2> DEFINE Old == ~tainted /\ Inside
  <2>3. Old => \A s \in Store : s \in Resettable => \A k \in Key :
          Base(slot, pm, s)[k] = Absent \/ Base(slot, pm, s)[k] >= first
    BY <1>0, <1>a, SinceView
  <2>4. /\ slot.delta \in Stores /\ slot.base \in Stores
    BY <1>0 DEF Modules, Stores
  <2>5. ASSUME NEW stores \in SUBSET Store, slot' = Load(slot, pm, stores)
        PROVE  BleedInv'
    <3>1. /\ slot'.delta = slot.delta
          /\ slot'.base = [s \in Store |-> IF s \in stores THEN Base(slot, pm, s)
                                           ELSE slot.base[s]]
      BY <1>0, <2>4, <2>5 DEF Load, Modules, Stores
    <3>2. Old => Since(slot'.base)
      BY <1>0, <2>3, <3>1 DEF Since
    <3> QED BY <2>2, <3>1, <3>2
  <2>6. ASSUME NEW s \in Store, NEW k \in Key, NEW v \in Nat, slot'.base = slot.base,
               slot'.delta = [slot.delta EXCEPT ![s][k] = v],
               v = Absent \/ v >= first
        PROVE  BleedInv'
    <3>1. \A x \in Store, y \in Key : slot'.delta[x][y] \in {slot.delta[x][y], v}
      BY <2>4, <2>6 DEF Stores
    <3>2. Old => Since(slot'.delta)
      BY <1>0, <2>6, <3>1 DEF Since
    <3> QED BY <2>2, <2>6, <3>2
  <2>7. ASSUME NEW s \in Store, NEW k \in Key, Get(s, k) PROVE BleedInv'
    <3>1. slot' = slot \/ slot' = Load(slot, pm, {s})
      BY <2>7 DEF Get, GetFrom
    <3> QED BY <2>2, <2>5, <3>1
  <2>8. CASE GetVariable
    BY <2>5, <2>8 DEF GetVariable
  <2>9. ASSUME NEW s \in Store, NEW k \in Key, Set(s, k) PROVE BleedInv'
    <3>1. slot'.base = slot.base /\ slot'.delta = [slot.delta EXCEPT ![s][k] = test]
      BY <1>0, <2>9 DEF Set, SetIn, Modules
    <3> QED BY <1>0, <2>1, <2>6, <3>1
  <2>10. ASSUME NEW s \in Store, NEW k \in Key, Unset(s, k) PROVE BleedInv'
    <3>1. slot'.base = slot.base /\ slot'.delta = [slot.delta EXCEPT ![s][k] = Absent]
      BY <1>0, <2>10 DEF Unset, UnsetIn, Modules
    <3> QED BY <2>6, <3>1 DEF Absent
  <2>11. ASSUME NEW s \in Store, Clear(s) PROVE BleedInv'
    <3>1. /\ slot'.delta = [slot.delta EXCEPT ![s] = Empty]
          /\ slot'.base = [slot.base EXCEPT ![s] = Empty]
      BY <1>0, <2>11 DEF Clear, ClearIn, Modules
    <3>2. Old => Since(slot'.delta) /\ Since(slot'.base)
      BY <1>0, <2>4, <3>1 DEF Since, Empty, Stores
    <3> QED BY <2>2, <3>2
  <2>12. ASSUME slot'.delta = slot.delta, slot'.base = slot.base PROVE BleedInv'
    BY <2>2, <2>12
  <2>13. ASSUME NEW k \in Key, SetVariable(k) PROVE BleedInv'
    <3>1. PICK v \in {test, Absent} : slot' = [slot EXCEPT !.variables[k] = v]
      BY <2>13 DEF SetVariable
    <3> QED BY <1>0, <2>12, <3>1 DEF Modules
  <2>14. ASSUME NEW lib \in Library, FailAssertion(lib) PROVE BleedInv'
    <3>1. slot' = Failed(slot, lib, test)
      BY <2>14 DEF FailAssertion
    <3> QED BY <1>0, <2>12, <3>1, FailureCalls
  <2>15. ASSUME NEW lib \in Library, DropResults(lib) PROVE BleedInv'
    <3>1. slot' = Reset(slot, lib)
      BY <2>15 DEF DropResults
    <3>2. CASE lib = "test"
      BY <1>0, <2>12, <3>1, <3>2, ResetCalls
    <3>3. CASE lib = "pm"
      <4>1. /\ slot'.delta = [s \in Store |-> Empty]
            /\ slot'.base = [s \in Store |-> Empty]
        BY <1>0, <3>1, <3>3, ResetCalls, FreshModules DEF Clean
      <4> QED BY <2>2, <4>1, SinceEmpty
    <3> QED BY <1>0, <3>2, <3>3
  <2> QED BY <1>7, <2>7, <2>8, <2>9, <2>10, <2>11, <2>13, <2>14, <2>15
       DEF ScriptCalls
<1>8. CASE UNCHANGED vars
  BY <1>8 DEF vars, code, book, InScript, BleedInv, Since
<1> QED BY <1>1, <1>2, <1>3, <1>4, <1>5, <1>6, <1>7, <1>8
     DEF Next, RunnerStep, ScriptReturns

-----------------------------------------------------------------------------
(* The theorems.                                                           *)

\* The invariant holds in every run.
LEMMA TestInvariant == Spec => []TestInv
<1>1. TestInv /\ [Next]_vars => TestInv'
  <2> SUFFICES ASSUME TestInv, [Next]_vars PROVE TestInv'
    OBVIOUS
  <2>1. ShapeInv' /\ ExchangeInv' /\ SlotInv'
    BY NextShapeInv, NextExchangeInv, NextSlotInv DEF TestInv
  <2>2. VerdictInv' /\ ScopeInv' /\ BleedInv'
    BY <2>1, NextVerdictInv, NextScopeInv, NextBleedInv DEF TestInv
  <2> QED BY <2>1, <2>2 DEF TestInv
<1> QED BY <1>1, InitTestInv, PTL DEF Spec

\* For any stores and variable names, and any number of tests: the runner, the
\* slot and the bookkeeping keep their types.
THEOREM TypeCorrect == Spec => []TypeOK
<1>1. TestInv => TypeOK
  BY DEF TestInv, ShapeInv
<1> QED BY <1>1, TestInvariant, PTL

\* A script finds in the stores what results() reported since the reset, with
\* its own writes on top, unless the last user of its slot left unreported.
THEOREM ScopesAreKept == Spec => []ScopesKept
<1>1. TestInv => ScopesKept
  BY DEF TestInv, ScopeInv, ScopesKept
<1> QED BY <1>1, TestInvariant, PTL

\* Variables of one collection never bleed into the next one's scripts, in the
\* stores that reset_pm_state empties.
THEOREM CollectionsDoNotBleed == Spec => []NoBleed
<1>1. TestInv => NoBleed
  <2> SUFFICES ASSUME TestInv, InScript, ~tainted
               PROVE  \A s \in Resettable, k \in Key :
                        \/ View(slot, pm)[s][k] = Absent
                        \/ View(slot, pm)[s][k] >= first
    BY DEF NoBleed
  <2>1. slot \in Modules /\ pm \in Stores
    BY DEF TestInv, ShapeInv, TypeOK, Stores
  <2>2. Since(View(slot, pm))
    BY <2>1, SinceView DEF TestInv, BleedInv
  <2> QED BY <2>2 DEF Since
<1> QED BY <1>1, TestInvariant, PTL

\* A reported failure fails its test, and a test fails for no other reason and
\* lists only its own failures, unless a script of it met those of another.
THEOREM VerdictsAreJust == Spec => []VerdictJust
<1>1. TestInv => VerdictJust
  BY DEF TestInv, VerdictInv
<1> QED BY <1>1, TestInvariant, PTL

\* Post-scripts are given the request that was sent and the answer to it, and
\* results are recorded with that request.
THEOREM ExchangesAreConsistent == Spec => []ExchangeConsistent
<1>1. TestInv => ExchangeConsistent
  <2> SUFFICES ASSUME TestInv PROVE ExchangeConsistent
    OBVIOUS
  <2>1. ASSUME running, phase \in Post
        PROVE  input = [request |-> sent, response |-> test]
    BY <2>1 DEF TestInv, ExchangeInv
  <2>2. recorded = test => request = sent
    BY DEF TestInv, ExchangeInv
  <2> QED BY <2>1, <2>2 DEF ExchangeConsistent
<1> QED BY <1>1, TestInvariant, PTL
=============================================================================

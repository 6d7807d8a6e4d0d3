-------------------------- MODULE ProtectedMainProofs --------------------------
(***************************************************************************)
(* Proofs about ProtectedMain, for any users and any number of edits and   *)
(* pushes.                                                                 *)
(*                                                                         *)
(* A document says what was true when it was read.  Edits of the rulesets  *)
(* leave the classic protection as it was read, and one edit changes one   *)
(* of the two layers, so that the documents of the other are still true;   *)
(* either layer alone admits nothing but the App's fast-forwards.          *)
(***************************************************************************)
EXTENDS ProtectedMain, FiniteSetTheorems, TLAPS

\* Rulesets are numbered as they are created.
Numbered == \A r \in config.rulesets : r.id <= edits + 2

\* What was read of the classic protection is what it is.
ClassicRead == pc \in {"list", "details"} => docs.classic = {config.classic}

\* What was read of the rulesets is what they are.
RulesetsRead ==
  /\ pc = "details" => docs.list = Summaries
  /\ docs.details \subseteq {Detail(r) : r \in config.rulesets}

\* Without an edit since the check began, both are; with one, one of them is;
\* and the classic protection is until it is edited itself.
Reading ==
  pc # "idle" =>
    /\ relaid <= began => ClassicRead
    /\ edits <= began => RulesetsRead /\ docs.scope = config.scope
    /\ edits <= began + 1 => ClassicRead \/ RulesetsRead

\* The ruleset layer, with the bypass lists it should have.
ExactRulesets ==
  \E r, s \in config.rulesets :
    /\ r.active /\ r.onMain /\ r.bypass = {} /\ r.rules = IntegrityRules
    /\ s.active /\ s.onMain /\ s.bypass = {App} /\ s.rules = {"update"}

\* What a successful check has established, and later edits leave of it.
Protecting ==
  trusted =>
    /\ relaid <= since => ExactClassic(config.classic)
    /\ edits <= since /\ visible => ExactRulesets
    /\ edits <= since + 1 /\ visible =>
         ExactClassic(config.classic) \/ ExactRulesets

IInv ==
  /\ TypeOK
  /\ Numbered
  /\ Reading
  /\ Protecting

-------------------------------------------------------------------------------
(* The two layers.                                                         *)

\* The classic protection alone admits only the App's fast-forwards.
LEMMA ClassicSuffices ==
  ASSUME NEW c, ExactClassic(c), NEW a \in Actors, NEW kind \in Kinds,
         ClassicAdmits(c, a, kind)
  PROVE  a = App /\ kind = "fast_forward"
BY DEF ExactClassic, ClassicAdmits, Kinds

\* So do the two rulesets.
LEMMA RulesetsSuffice ==
  ASSUME ExactRulesets, NEW a \in Actors, NEW kind \in Kinds, Admits(a, kind)
  PROVE  a = App /\ kind = "fast_forward"
<1>1. PICK r, s \in config.rulesets :
        /\ r.active /\ r.onMain /\ r.bypass = {} /\ r.rules = IntegrityRules
        /\ s.active /\ s.onMain /\ s.bypass = {App} /\ s.rules = {"update"}
  BY DEF ExactRulesets
<1>2. RulesetAdmits(r, a, kind) /\ RulesetAdmits(s, a, kind)
  BY DEF Admits
<1>3. kind = "fast_forward"
  BY <1>1, <1>2 DEF RulesetAdmits, Forbids, IntegrityRules, Kinds
<1>4. a = App
  BY <1>1, <1>2, <1>3 DEF RulesetAdmits, Forbids
<1> QED
  BY <1>3, <1>4

\* Every push is admitted by both, so either is enough.
LEMMA LayerGuardsMain ==
  ASSUME NEW a \in Actors, NEW kind \in Kinds, Push(a, kind),
         ExactClassic(config.classic) \/ ExactRulesets
  PROVE  AppFastForwards
<1>1. Admits(a, kind)
  BY DEF Push
<1>2. a = App /\ kind = "fast_forward"
  BY <1>1, ClassicSuffices, RulesetsSuffice DEF Admits
<1> QED
  BY <1>2 DEF Push, AppFastForwards, Base

-------------------------------------------------------------------------------
(* Edits.                                                                  *)

\* An edit changes one layer, and leaves a well-formed configuration.
LEMMA EditIs ==
  ASSUME IInv, Edit
  PROVE  /\ config' \in Configs
         /\ \A r, s \in config'.rulesets : r.id = s.id => r = s
         /\ Numbered'
         /\ config'.rulesets = config.rulesets \/ config'.classic = config.classic
<1>1. /\ config \in Configs /\ config.classic \in Classics
      /\ config.rulesets \subseteq Rulesets
      /\ \A r, s \in config.rulesets : r.id = s.id => r = s
      /\ \A r \in config.rulesets : r.id \in Nat /\ r.id <= edits + 2
      /\ edits \in Nat /\ edits < MaxEdits /\ edits' = edits + 1
  BY Bounds DEF IInv, TypeOK, Numbered, Configs, Rulesets, Ids, Edit
<1>2. CASE config' = [config EXCEPT !.scope = Flip(@, "other")]
  <2>1. Flip(config.scope, "other") \subseteq {"gitops", "other"}
    BY <1>1 DEF Configs, Flip
  <2> QED
    BY <1>1, <1>2, <2>1 DEF Configs, Numbered
<1>3. ASSUME NEW c \in FlippedClassics(config.classic),
             config' = [config EXCEPT !.classic = c]
      PROVE  /\ config' \in Configs
             /\ config'.rulesets = config.rulesets
  <2>1. c \in Classics
    <3>1. /\ \A a \in Actors : Flip(config.classic.pushers, a) \subseteq Actors
          /\ \A x \in Switches : Flip(config.classic.on, x) \subseteq Switches
      BY <1>1 DEF Classics, Flip
    <3>2. \/ c = [config.classic EXCEPT !.present = ~@]
          \/ \E a \in Actors : c = [config.classic EXCEPT !.pushers = Flip(@, a)]
          \/ \E x \in Switches : c = [config.classic EXCEPT !.on = Flip(@, x)]
      BY <1>3 DEF FlippedClassics
    <3>3. config.classic.present \in BOOLEAN
      BY <1>1 DEF Classics
    <3> QED
      BY <1>1, <3>1, <3>2, <3>3 DEF Classics
  <2> QED
    BY <1>1, <1>3, <2>1 DEF Configs
<1>4. ASSUME NEW r \in config.rulesets,
             config' = [config EXCEPT !.rulesets = @ \ {r}]
      PROVE  /\ config' \in Configs
             /\ config'.classic = config.classic
             /\ config'.rulesets \subseteq config.rulesets
  BY <1>1, <1>4 DEF Configs
<1>5. ASSUME NEW r \in config.rulesets, NEW x \in FlippedRulesets(r),
             config' = [config EXCEPT !.rulesets = (@ \ {r}) \cup {x}]
      PROVE  /\ config' \in Configs
             /\ config'.classic = config.classic
             /\ config'.rulesets = (config.rulesets \ {r}) \cup {x}
             /\ x.id = r.id
  <2>1. r \in Rulesets
    BY <1>1
  <2>2. x \in Rulesets /\ x.id = r.id
    <3>1. /\ \A a \in Actors : Flip(r.bypass, a) \subseteq Actors
          /\ \A t \in RuleTypes : Flip(r.rules, t) \subseteq RuleTypes
      BY <2>1 DEF Rulesets, Flip
    <3>2. \/ x = [r EXCEPT !.active = ~@]
          \/ x = [r EXCEPT !.onMain = ~@]
          \/ \E a \in Actors : x = [r EXCEPT !.bypass = Flip(@, a)]
          \/ \E t \in RuleTypes : x = [r EXCEPT !.rules = Flip(@, t)]
      BY <1>5 DEF FlippedRulesets
    <3> QED
      BY <2>1, <3>1, <3>2 DEF Rulesets
  <2> QED
    BY <1>1, <1>5, <2>2 DEF Configs
<1>6. ASSUME NEW name \in RulesetNames,
             config' = [config EXCEPT !.rulesets = @ \cup {Created(name)}]
      PROVE  /\ config' \in Configs
             /\ config'.classic = config.classic
             /\ config'.rulesets = config.rulesets \cup {Created(name)}
             /\ Created(name).id = edits + 3
  <2>1. Created(name) \in Rulesets /\ Created(name).id = edits + 3
    BY <1>1, Bounds DEF Created, Rulesets, Ids
  <2> QED
    BY <1>1, <1>6, <2>1 DEF Configs
<1>7. ASSUME config'.rulesets \subseteq config.rulesets
      PROVE  /\ \A q, s \in config'.rulesets : q.id = s.id => q = s
             /\ Numbered'
  BY <1>1, <1>7 DEF Numbered
<1>8. \/ config' = [config EXCEPT !.scope = Flip(@, "other")]
      \/ \E c \in FlippedClassics(config.classic) :
           config' = [config EXCEPT !.classic = c]
      \/ \E r \in config.rulesets :
           \/ config' = [config EXCEPT !.rulesets = @ \ {r}]
           \/ \E x \in FlippedRulesets(r) :
                config' = [config EXCEPT !.rulesets = (@ \ {r}) \cup {x}]
      \/ \E name \in RulesetNames :
           config' = [config EXCEPT !.rulesets = @ \cup {Created(name)}]
  BY DEF Edit, EditedConfigs
<1>9. ASSUME NEW r \in config.rulesets, NEW x \in FlippedRulesets(r),
             config' = [config EXCEPT !.rulesets = (@ \ {r}) \cup {x}]
      PROVE  /\ \A q, s \in config'.rulesets : q.id = s.id => q = s
             /\ Numbered'
  BY <1>1, <1>5, <1>9 DEF Numbered
<1>10. ASSUME NEW name \in RulesetNames,
              config' = [config EXCEPT !.rulesets = @ \cup {Created(name)}]
       PROVE  /\ \A q, s \in config'.rulesets : q.id = s.id => q = s
              /\ Numbered'
  BY <1>1, <1>6, <1>10 DEF Numbered
<1> QED
  BY <1>2, <1>3, <1>4, <1>5, <1>6, <1>7, <1>8, <1>9, <1>10

\* An edit leaves a layer as the check found it.
LEMMA EditKeeps ==
  ASSUME IInv, Edit
  PROVE  IInv'
<1>1. /\ config' \in Configs
      /\ \A r, s \in config'.rulesets : r.id = s.id => r = s
      /\ Numbered'
      /\ config'.rulesets = config.rulesets \/ config'.classic = config.classic
  BY EditIs
<1>2. /\ edits \in Nat /\ began \in 0 .. edits /\ since \in 0 .. edits
      /\ edits < MaxEdits /\ edits' = edits + 1
      /\ relaid \in 0 .. edits
      /\ relaid' = IF config'.classic = config.classic THEN relaid ELSE edits'
      /\ UNCHANGED <<visible, main, pc, docs, began, trusted, since, pushes>>
  BY DEF IInv, TypeOK, Edit
<1>3. TypeOK'
  BY <1>1, <1>2, Bounds DEF IInv, TypeOK
<1>4. Reading'
  <2>1. SUFFICES ASSUME pc # "idle"
                 PROVE  /\ relaid' <= began => ClassicRead'
                        /\ edits' <= began + 1 => ClassicRead' \/ RulesetsRead'
    BY <1>2 DEF Reading
  <2>2. config'.classic = config.classic /\ ClassicRead => ClassicRead'
    BY <1>2 DEF ClassicRead
  <2>3. config'.rulesets = config.rulesets /\ RulesetsRead => RulesetsRead'
    BY <1>2 DEF RulesetsRead, Summaries, Detail
  <2>4. relaid' <= began => ClassicRead'
    BY <1>2, <2>1, <2>2 DEF IInv, Reading
  <2>5. edits' <= began + 1 => ClassicRead /\ RulesetsRead
    BY <1>2, <2>1 DEF IInv, Reading
  <2> QED
    BY <1>1, <2>2, <2>3, <2>4, <2>5
<1>5. Protecting'
  <2>1. SUFFICES ASSUME trusted
                 PROVE  /\ relaid' <= since => ExactClassic(config'.classic)
                        /\ edits' <= since + 1 /\ visible =>
                             ExactClassic(config'.classic) \/ ExactRulesets'
    BY <1>2 DEF Protecting
  <2>2. relaid' <= since => ExactClassic(config'.classic)
    BY <1>2, <2>1 DEF IInv, Protecting
  <2>3. edits' <= since + 1 /\ visible =>
          ExactClassic(config.classic) /\ ExactRulesets
    BY <1>2, <2>1 DEF IInv, Protecting
  <2> QED
    BY <1>1, <2>2, <2>3 DEF ExactRulesets
<1> QED
  BY <1>1, <1>3, <1>4, <1>5 DEF IInv

-------------------------------------------------------------------------------
(* Pushes and the check.                                                   *)

\* A push changes nothing but main.
LEMMA PushKeeps ==
  ASSUME IInv, NEW a \in Actors, NEW kind \in Kinds, Push(a, kind)
  PROVE  IInv'
<1>1. Commit(a, kind) \in [by : Actors, merge : BOOLEAN]
  BY DEF Commit
<1>2. main' \in Seq([by : Actors, merge : BOOLEAN])
  <2> DEFINE C == [by : Actors, merge : BOOLEAN]
             new == Commit(a, kind)
  <2>1. main \in Seq(C) /\ new \in C
    BY <1>1 DEF IInv, TypeOK
  <2>2. main' \in {<<>>, <<new>>, Append(main, new)}
    BY DEF Push
  <2> HIDE DEF C, new
  <2>3. <<>> \in Seq(C) /\ <<new>> \in Seq(C) /\ Append(main, new) \in Seq(C)
    BY <2>1
  <2>4. main' \in Seq(C)
    BY <2>2, <2>3
  <2> QED
    BY <2>4 DEF C
<1>3. pushes' \in 0 .. MaxPushes
  BY Bounds DEF IInv, TypeOK, Push
<1>4. UNCHANGED <<config, visible, pc, docs, began, trusted, since, edits, relaid>>
  BY DEF Push
<1> QED
  BY <1>2, <1>3, <1>4
     DEF IInv, TypeOK, Numbered, Reading, Protecting, ClassicRead, RulesetsRead,
         Summaries, Detail, ExactRulesets

\* What a failing check leaves behind.
LEMMA FailKeeps ==
  ASSUME IInv, Fail,
         UNCHANGED <<config, visible, main, began, since, edits, relaid, pushes>>
  PROVE  IInv'
<1>1. NoDocs \in Docs
  BY DEF NoDocs, Docs
<1> QED
  BY <1>1 DEF IInv, Fail, TypeOK, Numbered, Reading, Protecting

\* Reading one document.
LEMMA ReadKeeps ==
  ASSUME IInv, NEW id \in Ids,
         Begin \/ ProbeClassic \/ ReadClassic \/ ReadList \/ ReadDetail(id),
         ~Fail
  PROVE  IInv'
<1>1. /\ UNCHANGED <<config, visible, main, trusted, since, edits, relaid, pushes>>
      /\ config \in Configs /\ docs \in Docs
      /\ edits \in Nat /\ began \in 0 .. edits
  BY DEF IInv, TypeOK, Begin, ProbeClassic, ReadClassic, ReadList, ReadDetail
<1>2. Protecting' /\ Numbered'
  BY <1>1 DEF IInv, Protecting, Numbered, ExactRulesets
<1>3. CASE Begin
  <2>1. /\ pc' = "probe" /\ began' = edits
        /\ docs' = [NoDocs EXCEPT !.scope = config.scope]
    BY <1>3 DEF Begin
  <2>2. docs' \in Docs /\ docs'.details = {} /\ docs'.scope = config.scope
    BY <1>1, <2>1 DEF NoDocs, Docs, Configs
  <2>3. TypeOK'
    BY <1>1, <2>1, <2>2 DEF IInv, TypeOK
  <2>4. Reading'
    BY <1>1, <2>1, <2>2 DEF Reading, ClassicRead, RulesetsRead
  <2> QED
    BY <1>2, <2>3, <2>4 DEF IInv
<1>4. CASE ProbeClassic
  <2>1. pc = "probe" /\ pc' = "classic" /\ began' = began /\ docs' = docs
    BY <1>4 DEF ProbeClassic
  <2>2. TypeOK'
    BY <1>1, <2>1 DEF IInv, TypeOK
  <2>3. ClassicRead' /\ (RulesetsRead => RulesetsRead')
    BY <1>1, <2>1 DEF ClassicRead, RulesetsRead, Detail
  <2>4. Reading'
    BY <1>1, <2>1, <2>3 DEF IInv, Reading
  <2> QED
    BY <1>2, <2>2, <2>4 DEF IInv
<1>5. CASE ReadClassic
  <2>1. /\ pc = "classic" /\ pc' = "list" /\ began' = began
        /\ docs' = [docs EXCEPT !.classic = {config.classic}]
    BY <1>5 DEF ReadClassic
  <2>2. /\ docs' \in Docs /\ docs'.details = docs.details
        /\ docs'.scope = docs.scope /\ docs'.classic = {config.classic}
    BY <1>1, <2>1 DEF Docs, Configs
  <2>3. TypeOK'
    BY <1>1, <2>1, <2>2 DEF IInv, TypeOK
  <2>4. ClassicRead' /\ (RulesetsRead => RulesetsRead')
    BY <1>1, <2>1, <2>2 DEF ClassicRead, RulesetsRead, Detail
  <2>5. Reading'
    BY <1>1, <2>1, <2>2, <2>4 DEF IInv, Reading
  <2> QED
    BY <1>2, <2>3, <2>5 DEF IInv
<1>6. CASE ReadList
  <2>1. /\ pc = "list" /\ pc' = "details" /\ began' = began
        /\ docs' = [docs EXCEPT !.list = Summaries]
    BY <1>6 DEF ReadList
  <2>2. Summaries \subseteq [name : RulesetNames, id : Ids, active : BOOLEAN]
    BY <1>1 DEF Summaries, Configs, Rulesets
  <2>3. /\ docs' \in Docs /\ docs'.details = docs.details
        /\ docs'.scope = docs.scope /\ docs'.classic = docs.classic
        /\ docs'.list = Summaries
    BY <1>1, <2>1, <2>2 DEF Docs
  <2>4. TypeOK'
    BY <1>1, <2>1, <2>3 DEF IInv, TypeOK
  <2>5. (ClassicRead => ClassicRead') /\ (RulesetsRead => RulesetsRead')
    BY <1>1, <2>1, <2>3 DEF ClassicRead, RulesetsRead, Summaries, Detail
  <2>6. Reading'
    BY <1>1, <2>1, <2>3, <2>5 DEF IInv, Reading
  <2> QED
    BY <1>2, <2>4, <2>6 DEF IInv
<1>7. CASE ReadDetail(id)
  <2>1. PICK r \in config.rulesets :
          docs' = [docs EXCEPT !.details = @ \cup {Detail(r)}]
    BY <1>7 DEF ReadDetail
  <2>2. pc = "details" /\ pc' = pc /\ began' = began
    BY <1>7 DEF ReadDetail
  <2>3. Detail(r) \in [ruleset : Rulesets, hidden : BOOLEAN, mine : {Never, Always}]
    BY <1>1 DEF IInv, TypeOK, Detail, Configs, Rulesets
  <2>4. /\ docs' \in Docs /\ docs'.details = docs.details \cup {Detail(r)}
        /\ docs'.scope = docs.scope /\ docs'.classic = docs.classic
        /\ docs'.list = docs.list
    BY <1>1, <2>1, <2>3 DEF Docs
  <2>5. TypeOK'
    BY <1>1, <2>2, <2>4 DEF IInv, TypeOK
  <2>6. (ClassicRead => ClassicRead') /\ (RulesetsRead => RulesetsRead')
    BY <1>1, <2>2, <2>4 DEF ClassicRead, RulesetsRead, Summaries, Detail
  <2>7. Reading'
    BY <1>1, <2>2, <2>4, <2>6 DEF IInv, Reading
  <2> QED
    BY <1>2, <2>5, <2>7 DEF IInv
<1> QED
  BY <1>3, <1>4, <1>5, <1>6, <1>7

\* Current documents of visible rulesets that satisfy the check are rulesets
\* that protect main.
LEMMA RulesetsProved ==
  ASSUME IInv, visible, RulesetsRead, Authorized(docs)
  PROVE  ExactRulesets
<1>1. PICK x \in docs.details : ExactIntegrity(x, docs.list)
  BY DEF Authorized
<1>2. PICK y \in docs.details : ExactGovernance(y, docs.list)
  BY DEF Authorized
<1>3. PICK r \in config.rulesets : x = Detail(r)
  BY DEF RulesetsRead
<1>4. PICK s \in config.rulesets : y = Detail(s)
  BY DEF RulesetsRead
<1>5. /\ \A q \in config.rulesets : [q EXCEPT !.bypass = q.bypass] = q
  BY DEF IInv, TypeOK, Configs, Rulesets
<1>6. x.ruleset = r /\ ~x.hidden /\ y.ruleset = s /\ ~y.hidden
  BY <1>3, <1>4, <1>5 DEF Detail
<1> QED
  BY <1>1, <1>2, <1>6
     DEF ExactRulesets, ExactIntegrity, ExactGovernance, ExactHeader, BypassProof

\* A check that succeeds has proved the layers it read and nobody edited.
LEMMA VerifyKeeps ==
  ASSUME IInv, Verify, ~Fail
  PROVE  IInv'
<1>1. /\ pc = "details" /\ Authorized(docs) /\ docs' = NoDocs
      /\ pc' = "idle" /\ trusted' = TRUE /\ since' = began
      /\ UNCHANGED <<config, visible, main, began, edits, relaid, pushes>>
  BY DEF Verify
<1>2. NoDocs \in Docs
  BY DEF NoDocs, Docs
<1>3. TypeOK'
  BY <1>1, <1>2 DEF IInv, TypeOK
<1>4. ClassicRead => ExactClassic(config.classic)
  BY <1>1 DEF ClassicRead, Authorized
<1>5. RulesetsRead /\ visible => ExactRulesets
  BY <1>1, RulesetsProved
<1>6. Protecting'
  <2>1. ExactRulesets' = ExactRulesets
    BY <1>1 DEF ExactRulesets
  <2> QED
    BY <1>1, <1>4, <1>5, <2>1 DEF IInv, Reading, Protecting
<1>7. Reading' /\ Numbered'
  BY <1>1 DEF IInv, Reading, Numbered
<1> QED
  BY <1>3, <1>6, <1>7 DEF IInv

-------------------------------------------------------------------------------
(* The theorems.                                                           *)

\* Nothing is trusted or read at first.
LEMMA InitInvariant == Init => IInv
<1> SUFFICES ASSUME Init
             PROVE  IInv
  OBVIOUS
<1>1. PICK extra \in {{}, {Admin}, Others} : config = Intended(extra)
  BY DEF Init
<1>2. /\ extra \subseteq Actors /\ {App} \subseteq Actors /\ 1 \in Ids /\ 2 \in Ids
      /\ IntegrityRules \subseteq RuleTypes /\ {"update"} \subseteq RuleTypes
  BY Bounds DEF Actors, Ids, IntegrityRules, RuleTypes
<1>3. config \in Configs
  BY <1>1, <1>2 DEF Intended, Configs, Classics, Switches, Rulesets, RulesetNames
<1>4. /\ \A r, s \in config.rulesets : r.id = s.id => r = s
      /\ \A r \in config.rulesets : r.id <= 2
  <2> DEFINE i == [name |-> Integrity, id |-> 1, active |-> TRUE,
                   onMain |-> TRUE, bypass |-> extra, rules |-> IntegrityRules]
             g == [name |-> Governance, id |-> 2, active |-> TRUE,
                   onMain |-> TRUE, bypass |-> {App} \cup extra,
                   rules |-> {"update"}]
  <2>1. config.rulesets = {i, g} /\ i.id = 1 /\ g.id = 2
    BY <1>1 DEF Intended
  <2> HIDE DEF i, g
  <2> QED
    BY <2>1
<1>5. NoDocs \in Docs
  BY DEF NoDocs, Docs
<1>6. main \in Seq([by : Actors, merge : BOOLEAN])
  BY DEF Init, Base, Commit, Actors
<1>7. TypeOK
  <2>1. /\ visible \in BOOLEAN /\ pc = "idle" /\ docs = NoDocs /\ began = 0
        /\ trusted = FALSE /\ since = 0 /\ edits = 0 /\ relaid = 0
        /\ pushes = 0
    BY DEF Init
  <2>2. /\ began \in 0 .. edits /\ since \in 0 .. edits
        /\ edits \in 0 .. MaxEdits /\ relaid \in 0 .. edits
        /\ pushes \in 0 .. MaxPushes
    BY <2>1, Bounds
  <2>3. docs \in Docs
    BY <1>5, <2>1
  <2> QED
    BY <1>3, <1>4, <1>6, <2>1, <2>2, <2>3, Zenon DEF TypeOK
<1> QED
  BY <1>4, <1>7 DEF Init, IInv, Numbered, Reading, Protecting

\* Every step keeps the invariant.
LEMMA StepInvariant == IInv /\ [Next]_vars => IInv'
<1> SUFFICES ASSUME IInv, [Next]_vars
             PROVE  IInv'
  OBVIOUS
<1>1. CASE Edit
  BY <1>1, EditKeeps
<1>2. ASSUME NEW a \in Actors, NEW kind \in Kinds, Push(a, kind)
      PROVE  IInv'
  BY <1>2, PushKeeps
<1>3. CASE Check
  <2>1. CASE Fail /\ ~Begin
    <3>1. UNCHANGED <<config, visible, main, began, since, edits, relaid, pushes>>
      BY <1>3, <2>1
         DEF Check, ProbeClassic, ReadClassic, ReadList, ReadDetail, Verify, Fail
    <3> QED
      BY <2>1, <3>1, FailKeeps
  <2>2. CASE Begin
    <3>1. ~Fail /\ 1 \in Ids
      BY <2>2, Bounds DEF Begin, Fail, Ids
    <3> QED
      BY <2>2, <3>1, ReadKeeps
  <2>3. CASE ~Fail /\ ~Begin
    <3>1. 1 \in Ids
      BY Bounds DEF Ids
    <3> QED
      BY <1>3, <2>3, <3>1, ReadKeeps, VerifyKeeps DEF Check
  <2> QED
    BY <2>1, <2>2, <2>3
<1>4. CASE UNCHANGED vars
  BY <1>4 DEF vars, IInv, TypeOK, Numbered, Reading, Protecting, ClassicRead,
              RulesetsRead, Summaries, Detail, ExactRulesets
<1> QED
  BY <1>1, <1>2, <1>3, <1>4 DEF Next

\* The invariant holds throughout.
LEMMA Invariance == Spec => []IInv
BY InitInvariant, StepInvariant, PTL DEF Spec

\* Only a push changes main.
LEMMA OthersLeaveMain ==
  ASSUME [Next]_vars
  PROVE  main' = main \/ \E a \in Actors, kind \in Kinds : Push(a, kind)
BY DEF Next, vars, Check, Begin, ProbeClassic, ReadClassic, ReadList,
       ReadDetail, Verify, Edit

\* Configurations, documents and counters have their types.
THEOREM TypeCorrect == Spec => []TypeOK
<1>1. IInv => TypeOK
  BY DEF IInv
<1> QED
  BY <1>1, Invariance, PTL

\* What the App is not shown of the bypass lists does not matter while the
\* classic protection is left alone, however often the rulesets are edited;
\* where it sees them, either layer outlives one edit of the other.
THEOREM TrustedCheckGuardsMain == Spec => TrustedMainGrows
<1>1. IInv /\ [Next]_vars =>
        [trusted /\ (relaid <= since \/ (visible /\ edits <= since + 1))
           => AppFastForwards]_vars
  <2> SUFFICES ASSUME IInv, [Next]_vars, trusted,
                      relaid <= since \/ (visible /\ edits <= since + 1)
               PROVE  AppFastForwards
    OBVIOUS
  <2>1. ExactClassic(config.classic) \/ ExactRulesets
    BY DEF IInv, Protecting
  <2> QED
    BY <2>1, OthersLeaveMain, LayerGuardsMain DEF AppFastForwards
<1> QED
  BY <1>1, Invariance, PTL DEF Spec, TrustedMainGrows

-------------------------------------------------------------------------------
(* The intended protection is accepted.                                    *)

\* Its two rulesets, with exact bypass lists, and their summaries.
LEMMA IntendedRulesets ==
  ASSUME config = Intended({})
  PROVE  \E i, g \in config.rulesets :
           /\ config.rulesets = {i, g}
           /\ i = [name |-> Integrity, id |-> 1, active |-> TRUE, onMain |-> TRUE,
                   bypass |-> {}, rules |-> IntegrityRules]
           /\ g = [name |-> Governance, id |-> 2, active |-> TRUE, onMain |-> TRUE,
                   bypass |-> {App}, rules |-> {"update"}]
           /\ Summaries = {[name |-> Integrity, id |-> 1, active |-> TRUE],
                           [name |-> Governance, id |-> 2, active |-> TRUE]}
           /\ Cardinality(Summaries) = 2
<1> DEFINE i == [name |-> Integrity, id |-> 1, active |-> TRUE, onMain |-> TRUE,
                 bypass |-> {}, rules |-> IntegrityRules]
           g == [name |-> Governance, id |-> 2, active |-> TRUE, onMain |-> TRUE,
                 bypass |-> {App}, rules |-> {"update"}]
           j == [name |-> Integrity, id |-> 1, active |-> TRUE]
           h == [name |-> Governance, id |-> 2, active |-> TRUE]
<1>1. config.rulesets = {i, g}
  <2>1. {App} \cup {} = {App}
    OBVIOUS
  <2> QED
    BY <2>1 DEF Intended
<1>2. Summaries = {j, h}
  <2>1. Summaries = {[name |-> r.name, id |-> r.id, active |-> r.active] : r \in {i, g}}
    BY <1>1 DEF Summaries
  <2>2. /\ [name |-> i.name, id |-> i.id, active |-> i.active] = j
        /\ [name |-> g.name, id |-> g.id, active |-> g.active] = h
    OBVIOUS
  <2> HIDE DEF i, g, j, h
  <2> QED
    BY <2>1, <2>2
<1>3. j # h
  OBVIOUS
<1> HIDE DEF j, h
<1>4. Cardinality({j, h}) = 2
  <2>1. IsFiniteSet({j}) /\ Cardinality({j}) = 1
    BY FS_Singleton
  <2>2. Cardinality({j} \cup {h}) = Cardinality({j}) + 1
    BY <1>3, <2>1, FS_AddElement
  <2>3. {j} \cup {h} = {j, h}
    OBVIOUS
  <2> QED
    BY <2>1, <2>2, <2>3
<1> QED
  BY <1>1, <1>2, <1>4 DEF j, h

\* Documents of it that nobody edited while they were read pass.
LEMMA IntendedPasses ==
  ASSUME IInv, config = Intended({}), pc = "details", edits = began, Unread = {}
  PROVE  Authorized(docs)
<1>1. ClassicRead /\ RulesetsRead /\ docs.scope = config.scope
  BY DEF IInv, TypeOK, Reading
<1>2. PICK i, g \in config.rulesets :
        /\ config.rulesets = {i, g}
        /\ i = [name |-> Integrity, id |-> 1, active |-> TRUE, onMain |-> TRUE,
                bypass |-> {}, rules |-> IntegrityRules]
        /\ g = [name |-> Governance, id |-> 2, active |-> TRUE, onMain |-> TRUE,
                bypass |-> {App}, rules |-> {"update"}]
        /\ Summaries = {[name |-> Integrity, id |-> 1, active |-> TRUE],
                        [name |-> Governance, id |-> 2, active |-> TRUE]}
        /\ Cardinality(Summaries) = 2
  BY IntendedRulesets
<1>3. docs.list = Summaries
  BY <1>1 DEF RulesetsRead
<1>4. docs.scope = {"gitops"} /\ \A c \in docs.classic : ExactClassic(c)
  BY <1>1 DEF ClassicRead, Intended, ExactClassic
<1>5. ExactSummaries(docs.list) /\ Cardinality(docs.list) = 2
  BY <1>2, <1>3 DEF ExactSummaries
<1>6. \A r \in config.rulesets : Detail(r).ruleset.id = r.id
  BY DEF IInv, TypeOK, Configs, Rulesets, Detail
<1>7. Detail(i) \in docs.details /\ Detail(g) \in docs.details
  <2>1. \A k \in {1, 2} : \E d \in docs.details : d.ruleset.id = k
    BY <1>2, <1>3 DEF Unread
  <2>2. \A d \in docs.details : d = Detail(i) \/ d = Detail(g)
    BY <1>1, <1>2 DEF RulesetsRead
  <2>3. Detail(i).ruleset.id = 1 /\ Detail(g).ruleset.id = 2
    BY <1>2, <1>6
  <2> QED
    BY <2>1, <2>2, <2>3
<1>8. /\ Detail(i).ruleset = i /\ Detail(i).mine = Never
      /\ Detail(g).mine = Always
      /\ Detail(g).ruleset = [g EXCEPT !.bypass = IF visible THEN @ ELSE {}]
      /\ Detail(g).hidden = ~visible
  BY <1>2 DEF Detail
<1>9. ExactIntegrity(Detail(i), docs.list)
  <2>1. \E s \in docs.list : s.name = Integrity /\ s.id = i.id
    BY <1>2, <1>3
  <2>2. /\ i.name = Integrity /\ i.active /\ i.onMain /\ i.bypass = {}
        /\ i.rules = IntegrityRules
    BY <1>2
  <2> QED
    BY <1>8, <2>1, <2>2 DEF ExactIntegrity, ExactHeader, BypassProof
<1>10. ExactGovernance(Detail(g), docs.list)
  <2> DEFINE shown == [g EXCEPT !.bypass = IF visible THEN @ ELSE {}]
  <2>1. \E s \in docs.list : s.name = Governance /\ s.id = 2
    BY <1>2, <1>3
  <2>2. /\ shown.name = Governance /\ shown.id = 2
        /\ shown.active /\ shown.onMain
        /\ shown.rules = {"update"} /\ (visible => shown.bypass = {App})
    BY <1>2
  <2> HIDE DEF shown
  <2>3. Detail(g).ruleset = shown
    BY <1>8 DEF shown
  <2> QED
    BY <1>8, <2>1, <2>2, <2>3 DEF ExactGovernance, ExactHeader, BypassProof
<1> QED
  BY <1>4, <1>5, <1>7, <1>9, <1>10 DEF Authorized

\* A check of the intended protection, unedited while it was read, succeeds,
\* whether or not the bypass lists are shown.
THEOREM IntendedProtectionPasses == Spec => IntendedIsAccepted
<1>1. IInv /\ [Next]_vars =>
        [pc # "idle" /\ pc' = "idle" /\ edits = began /\ config = Intended({})
           => trusted']_vars
  <2> SUFFICES ASSUME IInv, [Next]_vars, pc # "idle", pc' = "idle",
                      edits = began, config = Intended({})
               PROVE  trusted'
    OBVIOUS
  <2>1. /\ config.classic.present
        /\ Cardinality(Summaries) = 2
        /\ RulesetsRead
    BY IntendedRulesets DEF Intended, IInv, TypeOK, Reading
  <2>2. \/ ProbeClassic \/ ReadClassic \/ ReadList \/ Verify
        \/ \E id \in Ids : ReadDetail(id)
    BY DEF Next, vars, Check, Begin, Edit, Push
  <2>3. ~ProbeClassic /\ ~ReadClassic /\ ~ReadList
    BY <2>1 DEF ProbeClassic, ReadClassic, ReadList
  <2>4. ASSUME NEW id \in Ids, ReadDetail(id)
        PROVE  FALSE
    <3>1. pc = "details" /\ id \in Unread
      BY <2>4 DEF ReadDetail
    <3>2. \E r \in config.rulesets : r.id = id
      BY <2>1, <3>1 DEF RulesetsRead, Summaries, Unread
    <3> QED
      BY <2>4, <3>1, <3>2 DEF ReadDetail
  <2>5. CASE Verify
    BY <2>5, IntendedPasses DEF Verify
  <2> QED
    BY <2>2, <2>3, <2>4, <2>5
<1> QED
  BY <1>1, Invariance, PTL DEF Spec, IntendedIsAccepted
===============================================================================

----------------------------- MODULE ProtectedMain -----------------------------
(***************************************************************************)
(* What the authorization check of the migration release is worth.         *)
(* GitOps main is protected twice: by a classic branch protection, and by  *)
(* an integrity and a governance ruleset.  The workflow reads the App's    *)
(* scope, the protection, the list of rulesets and each of the two in      *)
(* requests of their own, while administrators edit them, and judges the   *)
(* documents together.  GitHub admits a push that both layers admit.       *)
(***************************************************************************)
EXTENDS Naturals, Sequences, FiniteSets

CONSTANTS
  App,         \* the release App
  Admin,       \* an administrator of the repository
  Others,      \* other users and Apps with write access
  MaxEdits,    \* bound: edits of the protection
  MaxPushes    \* bound: changes of main

ASSUME Names == App # Admin /\ {App, Admin} \cap Others = {}

ASSUME Bounds == MaxEdits \in Nat /\ MaxPushes \in Nat

Actors == {App, Admin} \cup Others

VARIABLES
  config,   \* the protection as it is
  visible,  \* the App may see bypass_actors
  main,     \* the commits of main
  pc,       \* which document the check reads next, or "idle"
  docs,     \* the documents it has read
  began,    \* edits made when it began to read
  trusted,  \* its last check succeeded, and none failed since
  since,    \* edits made when the last successful check began
  edits,    \* edits made so far
  relaid,   \* history: edits made up to the last one of the classic protection
  pushes    \* changes of main so far

vars == <<config, visible, main, pc, docs, began, trusted, since, edits,
          relaid, pushes>>

-------------------------------------------------------------------------------
(* The protection of main, and the documents that describe it.             *)

\* "reviews": everything the check asks of reviews, conversations and status
\* checks, none of which decides who may push.
Switches == {"enforce_admins", "linear_history", "reviews", "force_pushes",
             "deletions"}

Classics == [present : BOOLEAN, pushers : SUBSET Actors, on : SUBSET Switches]

\* "fetch_and_merge" is the parameter of update, when it is true.
RuleTypes == {"deletion", "non_fast_forward", "required_linear_history",
              "update", "fetch_and_merge"}

Integrity == "mission-spine-main-integrity"
Governance == "mission-spine-main-governance"

Ids == 1..(MaxEdits + 2)

\* onMain: its condition names refs/heads/main and nothing else.
RulesetNames == {Integrity, Governance, "other"}

Rulesets == [name : RulesetNames, id : Ids,
             active : BOOLEAN, onMain : BOOLEAN,
             bypass : SUBSET Actors, rules : SUBSET RuleTypes]

IntegrityRules == {"deletion", "non_fast_forward", "required_linear_history"}

\* What the App's token reaches, and the two layers.
Configs == [scope : SUBSET {"gitops", "other"}, classic : Classics,
            rulesets : SUBSET Rulesets]

NoDocs == [scope |-> {}, classic |-> {}, list |-> {}, details |-> {}]

Never == "never"
Always == "always"

\* The documents; classic holds the protection once it is read.
Docs ==
  [scope : SUBSET {"gitops", "other"}, classic : SUBSET Classics,
   list : SUBSET [name : RulesetNames, id : Ids, active : BOOLEAN],
   details : SUBSET [ruleset : Rulesets, hidden : BOOLEAN, mine : {Never, Always}]]

\* A ruleset as the App reads it: who bypasses it is hidden from callers
\* that may not write it, who learn of themselves only.
Detail(r) ==
  [ruleset |-> [r EXCEPT !.bypass = IF visible THEN @ ELSE {}],
   hidden |-> ~visible,
   mine |-> IF App \in r.bypass THEN Always ELSE Never]

-------------------------------------------------------------------------------
(* What the check demands of the documents.                                *)

\* Mutant: administrators are not looked at.
MutantAdminsExempt(c) ==
  /\ c.present
  /\ c.pushers = {App}
  /\ c.on \in {{"enforce_admins", "linear_history", "reviews"},
               {"linear_history", "reviews"}}

ExactClassic(c) ==
  /\ c.present
  /\ c.pushers = {App}
  /\ c.on = {"enforce_admins", "linear_history", "reviews"}

\* Mutant: what the App knows of itself is enough, whatever it sees.
MutantMineIsEnough(d, actors, mine) == d.mine = mine

\* Mutant: an inventory that cannot be seen is no proof.
MutantInventoryDemanded(d, actors, mine) ==
  ~d.hidden /\ d.ruleset.bypass = actors

\* The exact inventory when it is visible, the App's own capability when not.
BypassProof(d, actors, mine) ==
  IF d.hidden THEN d.mine = mine ELSE d.ruleset.bypass = actors

ExactHeader(d, name, summaries) ==
  /\ d.ruleset.name = name
  /\ d.ruleset.active
  /\ d.ruleset.onMain
  /\ \E s \in summaries : s.name = name /\ s.id = d.ruleset.id

ExactIntegrity(d, summaries) ==
  /\ ExactHeader(d, Integrity, summaries)
  /\ BypassProof(d, {}, Never)
  /\ d.ruleset.rules = IntegrityRules

ExactGovernance(d, summaries) ==
  /\ ExactHeader(d, Governance, summaries)
  /\ BypassProof(d, {App}, Always)
  /\ d.ruleset.rules = {"update"}

ExactSummaries(summaries) ==
  /\ {s.name : s \in summaries} = {Integrity, Governance}
  /\ \A s \in summaries : s.active

Authorized(d) ==
  /\ d.scope = {"gitops"}
  /\ \A c \in d.classic : ExactClassic(c)
  /\ Cardinality(d.list) = 2 /\ ExactSummaries(d.list)
  /\ \E x \in d.details : ExactIntegrity(x, d.list)
  /\ \E x \in d.details : ExactGovernance(x, d.list)

-------------------------------------------------------------------------------
(* What GitHub makes of the protection.                                    *)

Kinds == {"fast_forward", "merge", "force", "delete"}

\* Nobody is restricted by a protection that is not there, and an
\* administrator only by one that includes administrators.
ClassicAdmits(c, a, kind) ==
  \/ ~c.present
  \/ a = Admin /\ "enforce_admins" \notin c.on
  \/ /\ a \in c.pushers
     /\ kind = "merge" => "linear_history" \notin c.on
     /\ kind = "force" => "force_pushes" \in c.on
     /\ kind = "delete" => "deletions" \in c.on

Forbids(rule, kind) ==
  \/ rule = "deletion" /\ kind = "delete"
  \/ rule = "non_fast_forward" /\ kind = "force"
  \/ rule = "required_linear_history" /\ kind = "merge"
  \/ rule = "update" /\ kind # "delete"

RulesetAdmits(r, a, kind) ==
  \/ ~r.active
  \/ ~r.onMain
  \/ a \in r.bypass
  \/ \A rule \in r.rules : ~Forbids(rule, kind)

Admits(a, kind) ==
  /\ ClassicAdmits(config.classic, a, kind)
  /\ \A r \in config.rulesets : RulesetAdmits(r, a, kind)

Commit(a, kind) == [by |-> a, merge |-> kind = "merge"]

Base == Commit(App, "fast_forward")

Push(a, kind) ==
  /\ main # <<>>
  /\ Admits(a, kind)
  /\ pushes < MaxPushes
  /\ pushes' = pushes + 1
  /\ main' = CASE kind = "delete" -> <<>>
               [] kind = "force" -> <<Commit(a, kind)>>
               [] OTHER -> Append(main, Commit(a, kind))
  /\ UNCHANGED <<config, visible, pc, docs, began, trusted, since, edits,
                 relaid>>

-------------------------------------------------------------------------------
(* Administrators edit one thing at a time.                                *)

Flip(set, x) == IF x \in set THEN set \ {x} ELSE set \cup {x}

FlippedClassics(c) ==
  {[c EXCEPT !.present = ~@]}
    \cup {[c EXCEPT !.pushers = Flip(@, a)] : a \in Actors}
    \cup {[c EXCEPT !.on = Flip(@, s)] : s \in Switches}

FlippedRulesets(r) ==
  {[r EXCEPT !.active = ~@], [r EXCEPT !.onMain = ~@]}
    \cup {[r EXCEPT !.bypass = Flip(@, a)] : a \in Actors}
    \cup {[r EXCEPT !.rules = Flip(@, t)] : t \in RuleTypes}

\* A ruleset that replaces a deleted one has an id of its own.
Created(name) ==
  [name |-> name, id |-> edits + 3, active |-> TRUE, onMain |-> TRUE,
   bypass |-> {}, rules |-> {}]

\* The configurations one edit leads to.
EditedConfigs ==
  {[config EXCEPT !.scope = Flip(@, "other")]}
    \cup {[config EXCEPT !.classic = c] : c \in FlippedClassics(config.classic)}
    \cup {[config EXCEPT !.rulesets = @ \ {r}] : r \in config.rulesets}
    \cup (UNION {{[config EXCEPT !.rulesets = (@ \ {r}) \cup {x}] :
                     x \in FlippedRulesets(r)} : r \in config.rulesets})
    \cup {[config EXCEPT !.rulesets = @ \cup {Created(name)}] :
            name \in RulesetNames \ {r.name : r \in config.rulesets}}

Edit ==
  /\ edits < MaxEdits
  /\ edits' = edits + 1
  /\ config' \in EditedConfigs
  /\ relaid' = IF config'.classic = config.classic THEN relaid ELSE edits'
  /\ UNCHANGED <<visible, main, pc, docs, began, trusted, since, pushes>>

-------------------------------------------------------------------------------
(* The check, one request a step.                                          *)

\* Reads the repositories the App's token reaches.
Begin ==
  /\ pc = "idle"
  /\ pc' = "probe"
  /\ docs' = [NoDocs EXCEPT !.scope = config.scope]
  /\ began' = edits
  /\ UNCHANGED <<config, visible, main, trusted, since, edits, relaid, pushes>>

\* The job ends, and what it trusted with it.
Fail == pc' = "idle" /\ docs' = NoDocs /\ trusted' = FALSE

\* The protection is asked for twice, for its status and for its text; when
\* either answer is not 200 the job ends.
ProbeClassic ==
  /\ pc = "probe"
  /\ \/ config.classic.present /\ pc' = "classic" /\ UNCHANGED <<docs, trusted>>
     \/ ~config.classic.present /\ Fail
  /\ UNCHANGED <<config, visible, main, began, since, edits, relaid, pushes>>

ReadClassic ==
  /\ pc = "classic"
  /\ \/ /\ config.classic.present
        /\ pc' = "list"
        /\ docs' = [docs EXCEPT !.classic = {config.classic}]
        /\ UNCHANGED trusted
     \/ ~config.classic.present /\ Fail
  /\ UNCHANGED <<config, visible, main, began, since, edits, relaid, pushes>>

Summaries ==
  {[name |-> r.name, id |-> r.id, active |-> r.active] : r \in config.rulesets}

ReadList ==
  /\ pc = "list"
  /\ \/ /\ Cardinality(Summaries) = 2
        /\ pc' = "details"
        /\ docs' = [docs EXCEPT !.list = Summaries]
        /\ UNCHANGED trusted
     \/ Cardinality(Summaries) # 2 /\ Fail
  /\ UNCHANGED <<config, visible, main, began, since, edits, relaid, pushes>>

Unread == {s.id : s \in docs.list} \ {d.ruleset.id : d \in docs.details}

\* A ruleset deleted after it was listed answers 404.
ReadDetail(id) ==
  /\ pc = "details"
  /\ id \in Unread
  /\ \/ \E r \in config.rulesets :
          /\ r.id = id
          /\ docs' = [docs EXCEPT !.details = @ \cup {Detail(r)}]
          /\ UNCHANGED <<pc, trusted>>
     \/ (\A r \in config.rulesets : r.id # id) /\ Fail
  /\ UNCHANGED <<config, visible, main, began, since, edits, relaid, pushes>>

Verify ==
  /\ pc = "details"
  /\ Unread = {}
  /\ \/ /\ Authorized(docs)
        /\ pc' = "idle"
        /\ docs' = NoDocs
        /\ trusted' = TRUE
        /\ since' = began
     \/ ~Authorized(docs) /\ Fail /\ UNCHANGED since
  /\ UNCHANGED <<config, visible, main, began, edits, relaid, pushes>>

-------------------------------------------------------------------------------
(* The specification.                                                      *)

\* The protection the check asks for, but for the bypass lists, which may
\* name others besides.
Intended(extra) ==
  [scope |-> {"gitops"},
   classic |-> [present |-> TRUE, pushers |-> {App},
                on |-> {"enforce_admins", "linear_history", "reviews"}],
   rulesets |->
     {[name |-> Integrity, id |-> 1, active |-> TRUE, onMain |-> TRUE,
       bypass |-> extra, rules |-> IntegrityRules],
      [name |-> Governance, id |-> 2, active |-> TRUE, onMain |-> TRUE,
       bypass |-> {App} \cup extra, rules |-> {"update"}]}]

Init ==
  /\ \E extra \in {{}, {Admin}, Others} : config = Intended(extra)
  /\ visible \in BOOLEAN
  /\ main = <<Base>>
  /\ pc = "idle"
  /\ docs = NoDocs
  /\ began = 0
  /\ trusted = FALSE
  /\ since = 0
  /\ edits = 0
  /\ relaid = 0
  /\ pushes = 0

Check ==
  \/ Begin \/ ProbeClassic \/ ReadClassic \/ ReadList
  \/ \E id \in Ids : ReadDetail(id)
  \/ Verify

Next ==
  \/ Check
  \/ Edit
  \/ \E a \in Actors, kind \in Kinds : Push(a, kind)

Spec == Init /\ [][Next]_vars

-------------------------------------------------------------------------------
(* Properties.                                                             *)

TypeOK ==
  /\ config \in Configs
  /\ \A r, s \in config.rulesets : r.id = s.id => r = s
  /\ visible \in BOOLEAN
  /\ main \in Seq([by : Actors, merge : BOOLEAN])
  /\ pc \in {"idle", "probe", "classic", "list", "details"}
  /\ docs \in Docs
  /\ trusted \in BOOLEAN
  /\ began \in 0..edits /\ since \in 0..edits
  /\ edits \in 0..MaxEdits
  /\ relaid \in 0..edits
  /\ pushes \in 0..MaxPushes

AppFastForwards == main' \in {main, Append(main, Base)}

\* While a check can be trusted main changes by the App's fast-forwards only.
\* The deployed App is not shown who bypasses the rulesets, so that the
\* classic protection is the layer it can vouch for: unless that was edited
\* since the check began, no edits of the rulesets, between the requests or
\* after them, open main.  Where the lists are shown, one edit of either
\* layer does not.
TrustedMainGrows ==
  [][trusted /\ (relaid <= since \/ (visible /\ edits <= since + 1))
       => AppFastForwards]_vars

\* A check of the intended protection, unedited while it was read, succeeds,
\* whether or not the bypass lists are shown.
IntendedIsAccepted ==
  [][pc # "idle" /\ pc' = "idle" /\ edits = began /\ config = Intended({})
       => trusted']_vars
===============================================================================

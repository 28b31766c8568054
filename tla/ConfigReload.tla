---------------------------- MODULE ConfigReload ----------------------------
(***************************************************************************)
(* Start and reload: how a configuration file becomes the running state.   *)
(* The main loop reads the file, resolves it, builds the notifiers,        *)
(* reconciles the database in one transaction, hands the checks to the     *)
(* scheduler and replaces what the other tasks read, one step after the    *)
(* other; the file, the secrets and the requests change between any two of *)
(* them, and the process may die.  The alerts that a reconciliation        *)
(* resolves are modelled in Alerting.                                      *)
(***************************************************************************)
EXTENDS Configuration

CONSTANTS
    Files,           \* names of the contents the configuration file may have
    Content,         \* the content each name stands for, or Unparsable
    InitialFile,     \* the content before the first edit
    Readable,        \* what secrets and certificates may be read as: a set of functions
    IcmpAvailable,   \* check_icmp_capability: sockets for ICMP can be opened
    CommandCap,      \* capacity of the scheduler's command channel (16)
    InitialSecrets,  \* the secrets before the first change
    MaxEdits,        \* bound of the model: edits of the file
    MaxRotations,    \* bound of the model: changes of a secret
    MaxRequests,     \* bound of the model: requests to reload
    MaxCrashes       \* bound of the model: deaths of the process

ASSUME FilesAssumption == InitialFile \in Files /\ DOMAIN Content = Files
ASSUME NoneAssumption == None \notin Files \cup {"success", "failure"}
ASSUME ReadableAssumption == InitialSecrets \in Readable
ASSUME CapsAssumption == IcmpAvailable \in BOOLEAN /\ CommandCap \in Nat \ {0}
ASSUME BoundsAssumption ==
    /\ MaxEdits \in Nat /\ MaxRotations \in Nat
    /\ MaxRequests \in Nat /\ MaxCrashes \in Nat

VARIABLES
    file,            \* the configuration file
    secretFiles,     \* the secrets and certificates it refers to
    pending,         \* a request waits in the reload channel, of capacity one
    hangup,          \* SIGHUP has arrived and its task has not seen it
    forwarding,      \* the SIGHUP task waits for room in the reload channel
    pc,              \* where the main task is
    hand,            \* what it has in hand: new_config, new_resolved and notifier_map
    db,              \* the tables the reconciliation writes
    commands,        \* the scheduler's command channel
    active,          \* the scheduler's active_checks
    sharedConfig,    \* shared_config
    sharedNotifiers, \* shared_notifiers
    probeReady,      \* probe_ready
    lastReload,      \* last_reload
    edits, rotations, requests, crashes, \* counters of the bounds
    unseen,          \* history: a request was made that no read of the file has followed
    committed,       \* history: the configuration of the last commit, and what it read
    before           \* history: the running state when the reload in progress was taken up

environmentVars == <<file, secretFiles, edits, rotations>>
requestVars == <<pending, hangup, forwarding, requests, unseen>>
runningVars == <<commands, active, sharedConfig, sharedNotifiers, probeReady>>
vars == <<environmentVars, requestVars, runningVars, pc, hand, db, lastReload, crashes,
          committed, before>>

-----------------------------------------------------------------------------
(***************************************************************************)
(* What the operations on a configuration give for each file, tabulated.   *)
(* A resolved configuration and a map of notifiers are named by the file   *)
(* and the secrets they are made from, a hash by one of the inputs that    *)
(* have it.                                                                *)
(***************************************************************************)

\* The function f itself; TLC evaluates it at every argument, once.
Tabulated(f) == CHOOSE table \in {f} : table = f

\* The files KemuriConfig::load accepts.
Loadable == {f \in Files : Content[f] # Unparsable /\ Valid(Content[f])}

\* KemuriConfig::resolve, where it succeeds.
Parsed == Tabulated([f \in Loadable |-> Content[f]])

Resolvable == {fo \in Loadable \X Readable : Resolves(Parsed[fo[1]], fo[2])}
Checks == Tabulated([fo \in Resolvable |-> Resolved(Parsed[fo[1]], fo[2])])

\* build_notifiers, where it succeeds.
Buildable == {fo \in Loadable \X Readable : NotifiersBuild(Parsed[fo[1]], fo[2])}
Notifiers == Tabulated([fo \in Buildable |-> NotifierMap(Parsed[fo[1]], fo[2])])

\* The name of each input of a hash: one input for all that have the same hash.
FirstAlike(hash) ==
    [input \in DOMAIN hash |-> CHOOSE other \in DOMAIN hash : hash[other] = hash[input]]

\* compute_revision_id, of a check of a resolved configuration.
RevisionInputs == UNION {{<<fo, key>> : key \in DOMAIN Checks[fo]} : fo \in Resolvable}
RevisionId ==
    Tabulated(FirstAlike(Tabulated([input \in RevisionInputs |->
        <<input[2], Checks[input[1]][input[2]].revision_id>>])))

\* generation_hash
Canonical ==
    Tabulated([foo \in Loadable \X {1, 2} \X Readable |->
        GenerationHash(Parsed[foo[1]], foo[2], foo[3])])
Generation == Tabulated(FirstAlike(Canonical))

Configured == Tabulated([f \in Loadable |-> ConfiguredKeys(Parsed[f])])
Enabled == Tabulated([f \in Loadable |-> EnabledKeys(Parsed[f])])
EnabledTargetsOf == Tabulated([f \in Loadable |-> EnabledTargets(Parsed[f])])

-----------------------------------------------------------------------------
Nothing == [config |-> None, order |-> 1, resolved |-> None, generation |-> None,
            notifiers |-> None]

Serving == pc \notin {"down", "boot_reconcile", "boot_resolve", "boot_notifiers"}

\* What a reload is to leave alone when it fails: the checks the scheduler has or
\* is about to have, the configuration and the notifiers, and the database.
Running == <<IF commands = <<>> THEN active ELSE Last(commands), sharedConfig, sharedNotifiers,
             probeReady, db>>

Init ==
    /\ file = InitialFile
    /\ secretFiles = InitialSecrets
    /\ pending = FALSE /\ hangup = FALSE /\ forwarding = FALSE
    /\ pc = "down"
    /\ hand = Nothing
    /\ db = [targets |-> <<>>, checks |-> <<>>, revisions |-> {}, assigned |-> {},
             generation |-> None]
    /\ commands = <<>>
    /\ active = None
    /\ sharedConfig = None
    /\ sharedNotifiers = None
    /\ probeReady = FALSE
    /\ lastReload = [result |-> None, generation |-> None]
    /\ edits = 0 /\ rotations = 0 /\ requests = 0 /\ crashes = 0
    /\ unseen = FALSE
    /\ committed = [config |-> None, outside |-> secretFiles]
    /\ before = None

-----------------------------------------------------------------------------
(***************************************************************************)
(* The world around the process.                                           *)
(***************************************************************************)

EditFile ==
    /\ edits < MaxEdits
    /\ file' \in Files \ {file}
    /\ edits' = edits + 1
    /\ UNCHANGED <<secretFiles, rotations, requestVars, runningVars, pc, hand, db, lastReload,
                   crashes, committed, before>>

\* A secret is rotated, or a file it is in disappears.
Rotate ==
    /\ rotations < MaxRotations
    /\ secretFiles' \in Readable \ {secretFiles}
    /\ rotations' = rotations + 1
    /\ UNCHANGED <<file, edits, requestVars, runningVars, pc, hand, db, lastReload, crashes,
                   committed, before>>

\* SIGHUP: a second one that comes before the task has seen the first is the same.
Hangup ==
    /\ Serving
    /\ requests < MaxRequests
    /\ requests' = requests + 1
    /\ hangup' = TRUE
    /\ unseen' = TRUE
    /\ UNCHANGED <<environmentVars, pending, forwarding, runningVars, pc, hand, db,
                   lastReload, crashes, committed, before>>

HangupSeen ==
    /\ Serving
    /\ hangup /\ ~forwarding
    /\ hangup' = FALSE
    /\ forwarding' = TRUE
    /\ UNCHANGED <<environmentVars, pending, requests, unseen, runningVars, pc, hand, db,
                   lastReload, crashes, committed, before>>

HangupForwarded ==
    /\ Serving
    /\ forwarding /\ ~pending
    /\ forwarding' = FALSE
    /\ pending' = TRUE
    /\ UNCHANGED <<environmentVars, hangup, requests, unseen, runningVars, pc, hand, db,
                   lastReload, crashes, committed, before>>

\* reload_config: accepted when the channel has room, refused as already pending
\* when it has none.  One refused for its origin or content type does nothing.
ReloadConfig ==
    /\ Serving
    /\ requests < MaxRequests
    /\ requests' = requests + 1
    /\ pending' = TRUE
    /\ unseen' = TRUE
    /\ UNCHANGED <<environmentVars, hangup, forwarding, runningVars, pc, hand, db, lastReload,
                   crashes, committed, before>>

\* The process dies: only the database is left.
Crash ==
    /\ pc # "down"
    /\ crashes < MaxCrashes
    /\ crashes' = crashes + 1
    /\ pc' = "down"
    /\ hand' = Nothing
    /\ before' = None
    /\ pending' = FALSE /\ hangup' = FALSE /\ forwarding' = FALSE /\ unseen' = FALSE
    /\ commands' = <<>> /\ active' = None /\ sharedConfig' = None /\ sharedNotifiers' = None
    /\ probeReady' = FALSE
    /\ lastReload' = [result |-> None, generation |-> None]
    /\ UNCHANGED <<environmentVars, requests, db, committed>>

-----------------------------------------------------------------------------
(***************************************************************************)
(* Reconciliation: one transaction, which resolves the configuration once  *)
(* more before it begins.                                                  *)
(***************************************************************************)

\* The checks that are active and configured with a profile of another kind.
Mismatched(new) ==
    {key \in DOMAIN db.checks \cap Configured[new] :
        /\ db.checks[key].active
        /\ key[1] \in EnabledTargetsOf[new]
        /\ ProfileOf(Parsed[new], key).kind # db.checks[key].probe_type}

\* The row of an enabled check.  Its config_generation, which nothing reads, is
\* left out.
CheckRow(resolved, key) ==
    [active |-> TRUE, probe_type |-> Checks[resolved][key].probe_kind,
     profile_id |-> Checks[resolved][key].profile_id,
     revision |-> RevisionId[<<resolved, key>>]]

\* The row of any other check: one of a target that is not enabled stays as it is.
Left(new, key) ==
    [db.checks[key] EXCEPT !.active = @ /\ key[1] \notin EnabledTargetsOf[new]]

\* Mutant: the row keeps the revision it was inserted with.
ReconciledChecksKeepRevision(new) ==
    LET resolved == <<new, secretFiles>>
    IN  [key \in DOMAIN db.checks \cup Enabled[new] |->
            IF key \in Enabled[new] \cap DOMAIN db.checks
            THEN [CheckRow(resolved, key) EXCEPT !.revision = db.checks[key].revision]
            ELSE IF key \in Enabled[new]
                 THEN CheckRow(resolved, key)
                 ELSE Left(new, key)]

ReconciledChecks(new) ==
    LET resolved == <<new, secretFiles>>
    IN  [key \in DOMAIN db.checks \cup Enabled[new] |->
            IF key \in Enabled[new]
            THEN CheckRow(resolved, key)
            ELSE Left(new, key)]

ReconciledTargets(new) ==
    [id \in DOMAIN db.targets \cup EnabledTargetsOf[new] |-> id \in EnabledTargetsOf[new]]

\* Mutant: an assignment looks at the check alone.
AssignmentsOfChecks(checks, targets) == {key \in DOMAIN checks : checks[key].active}

Assignments(checks, targets) ==
    {key \in DOMAIN checks : checks[key].active /\ targets[key[1]]}

\* Mutant: the kind of an active check is not looked at.
ReconcilesAnyKind(new) == <<new, secretFiles>> \in Resolvable

Reconciles(new) == <<new, secretFiles>> \in Resolvable /\ Mismatched(new) = {}

Reconcile(new, order) ==
    \E checks \in {ReconciledChecks(new)}, targets \in {ReconciledTargets(new)} :
        /\ db' = [targets    |-> targets,
                  checks     |-> checks,
                  revisions  |->
                      db.revisions \cup {<<key, checks[key].revision>> : key \in Enabled[new]},
                  assigned   |-> Assignments(checks, targets),
                  generation |-> Generation[<<new, order, secretFiles>>]]
        /\ committed' = [config |-> new, outside |-> secretFiles]

HasIcmp(checks) == \E key \in DOMAIN checks : checks[key].probe_kind = "icmp"

-----------------------------------------------------------------------------
(***************************************************************************)
(* serve: the file is loaded, the database reconciled, the configuration   *)
(* resolved and the tasks started.  Any error ends the process.            *)
(***************************************************************************)

Load ==
    /\ pc = "down"
    /\ file \in Loadable
    /\ \E order \in MapOrders(Parsed[file]) :
          hand' = [Nothing EXCEPT !.config = file, !.order = order]
    /\ pc' = "boot_reconcile"
    /\ UNCHANGED <<environmentVars, requestVars, runningVars, db, lastReload, crashes,
                   committed, before>>

Exits ==
    /\ pc' = "down"
    /\ hand' = Nothing
    /\ UNCHANGED <<environmentVars, requestVars, runningVars, db, lastReload, crashes,
                   committed, before>>

BootReconcile ==
    /\ pc = "boot_reconcile"
    /\ IF Reconciles(hand.config)
       THEN /\ Reconcile(hand.config, hand.order)
            /\ pc' = "boot_resolve"
            /\ UNCHANGED <<environmentVars, requestVars, runningVars, hand, lastReload,
                           crashes, before>>
       ELSE Exits

BootTransactionFails == pc = "boot_reconcile" /\ Exits

BootResolve ==
    /\ pc = "boot_resolve"
    /\ IF <<hand.config, secretFiles>> \in Resolvable
       THEN /\ sharedConfig' = hand.config
            /\ active' = <<hand.config, secretFiles>>
            /\ probeReady' = (IcmpAvailable \/ ~HasIcmp(Checks[<<hand.config, secretFiles>>]))
            /\ pc' = "boot_notifiers"
            /\ UNCHANGED <<environmentVars, requestVars, commands, sharedNotifiers, hand, db,
                           lastReload, crashes, committed, before>>
       ELSE Exits

\* The tasks started before the notifiers are built end with the process.
BootNotifiers ==
    /\ pc = "boot_notifiers"
    /\ IF <<hand.config, secretFiles>> \in Buildable
       THEN /\ sharedNotifiers' = <<hand.config, secretFiles>>
            /\ pc' = "select"
            /\ hand' = Nothing
            /\ UNCHANGED <<environmentVars, requestVars, commands, active, sharedConfig,
                           probeReady, db, lastReload, crashes, committed, before>>
       ELSE /\ pc' = "down"
            /\ hand' = Nothing
            /\ active' = None /\ sharedConfig' = None /\ probeReady' = FALSE
            /\ UNCHANGED <<environmentVars, requestVars, commands, sharedNotifiers, db,
                           lastReload, crashes, committed, before>>

-----------------------------------------------------------------------------
(***************************************************************************)
(* perform_reload, called by the main loop and awaited there.              *)
(***************************************************************************)

TakeRequest ==
    /\ pc = "select"
    /\ pending
    /\ pending' = FALSE
    /\ pc' = "load"
    /\ before' = Running
    /\ UNCHANGED <<environmentVars, hangup, forwarding, requests, unseen, runningVars, hand,
                   db, lastReload, crashes, committed>>

Fail(generation) ==
    /\ lastReload' = [result |-> "failure", generation |-> generation]
    /\ pc' = "select"
    /\ hand' = Nothing
    /\ before' = None
    /\ UNCHANGED <<environmentVars, pending, hangup, forwarding, requests, runningVars, db,
                   crashes, committed>>

LoadNew ==
    /\ pc = "load"
    /\ unseen' = FALSE
    /\ IF file \in Loadable
       THEN /\ \E order \in MapOrders(Parsed[file]) :
                  hand' = [Nothing EXCEPT !.config = file, !.order = order]
            /\ pc' = "resolve"
            /\ UNCHANGED <<environmentVars, pending, hangup, forwarding, requests,
                           runningVars, db, lastReload, crashes, committed, before>>
       ELSE Fail(None)

ResolveNew ==
    /\ pc = "resolve"
    /\ UNCHANGED unseen
    /\ IF <<hand.config, secretFiles>> \in Resolvable
       THEN /\ hand' = [hand EXCEPT
                            !.resolved = <<hand.config, secretFiles>>,
                            !.generation = Generation[<<hand.config, hand.order, secretFiles>>]]
            /\ pc' = "build"
            /\ UNCHANGED <<environmentVars, pending, hangup, forwarding, requests,
                           runningVars, db, lastReload, crashes, committed, before>>
       ELSE Fail(None)

\* Mutant: the notifiers are replaced as soon as they are built.
BuildNotifiersInPlace ==
    /\ pc = "build"
    /\ UNCHANGED unseen
    /\ IF <<hand.config, secretFiles>> \in Buildable
       THEN /\ hand' = [hand EXCEPT !.notifiers = <<hand.config, secretFiles>>]
            /\ sharedNotifiers' = <<hand.config, secretFiles>>
            /\ pc' = "reconcile"
            /\ UNCHANGED <<environmentVars, pending, hangup, forwarding, requests, commands,
                           active, sharedConfig, probeReady, db, lastReload, crashes,
                           committed, before>>
       ELSE Fail(hand.generation)

BuildNotifiers ==
    /\ pc = "build"
    /\ UNCHANGED unseen
    /\ IF <<hand.config, secretFiles>> \in Buildable
       THEN /\ hand' = [hand EXCEPT !.notifiers = <<hand.config, secretFiles>>]
            /\ pc' = "reconcile"
            /\ UNCHANGED <<environmentVars, pending, hangup, forwarding, requests,
                           runningVars, db, lastReload, crashes, committed, before>>
       ELSE Fail(hand.generation)

ReconcileNew ==
    /\ pc = "reconcile"
    /\ UNCHANGED unseen
    /\ IF Reconciles(hand.config)
       THEN /\ Reconcile(hand.config, hand.order)
            /\ pc' = "hand_over"
            /\ UNCHANGED <<environmentVars, pending, hangup, forwarding, requests,
                           runningVars, hand, lastReload, crashes, before>>
       ELSE Fail(hand.generation)

\* A statement of the transaction fails, which rolls it back.
TransactionFails ==
    /\ pc = "reconcile"
    /\ UNCHANGED unseen
    /\ Fail(hand.generation)

\* scheduler.reconcile waits for room in the command channel.
HandOver ==
    /\ pc = "hand_over"
    /\ Len(commands) < CommandCap
    /\ commands' = Append(commands, hand.resolved)
    /\ pc' = "set_ready"
    /\ UNCHANGED <<environmentVars, requestVars, active, sharedConfig, sharedNotifiers,
                   probeReady, hand, db, lastReload, crashes, committed, before>>

SetReady ==
    /\ pc = "set_ready"
    /\ probeReady' = (IcmpAvailable \/ ~HasIcmp(Checks[hand.resolved]))
    /\ pc' = "swap_notifiers"
    /\ UNCHANGED <<environmentVars, requestVars, commands, active, sharedConfig,
                   sharedNotifiers, hand, db, lastReload, crashes, committed, before>>

SwapNotifiers ==
    /\ pc = "swap_notifiers"
    /\ sharedNotifiers' = hand.notifiers
    /\ pc' = "swap_config"
    /\ UNCHANGED <<environmentVars, requestVars, commands, active, sharedConfig, probeReady,
                   hand, db, lastReload, crashes, committed, before>>

SwapConfig ==
    /\ pc = "swap_config"
    /\ sharedConfig' = hand.config
    /\ pc' = "report"
    /\ UNCHANGED <<environmentVars, requestVars, commands, active, sharedNotifiers,
                   probeReady, hand, db, lastReload, crashes, committed, before>>

\* Mutant: a request that came during the reload is dropped with it.
ReportDrains ==
    /\ pc = "report"
    /\ lastReload' = [result |-> "success", generation |-> hand.generation]
    /\ pc' = "select"
    /\ hand' = Nothing
    /\ before' = None
    /\ pending' = FALSE
    /\ UNCHANGED <<environmentVars, hangup, forwarding, requests, unseen, runningVars, db,
                   crashes, committed>>

Report ==
    /\ pc = "report"
    /\ lastReload' = [result |-> "success", generation |-> hand.generation]
    /\ pc' = "select"
    /\ hand' = Nothing
    /\ before' = None
    /\ UNCHANGED <<environmentVars, requestVars, runningVars, db, crashes, committed>>

\* The scheduler task takes the next command.
SchedulerReconciles ==
    /\ Serving
    /\ commands # <<>>
    /\ active' = Head(commands)
    /\ commands' = Tail(commands)
    /\ UNCHANGED <<environmentVars, requestVars, sharedConfig, sharedNotifiers, probeReady,
                   pc, hand, db, lastReload, crashes, committed, before>>

Boot == Load \/ BootReconcile \/ BootTransactionFails \/ BootResolve \/ BootNotifiers
Reload ==
    \/ LoadNew \/ ResolveNew \/ BuildNotifiers \/ ReconcileNew \/ TransactionFails
    \/ HandOver \/ SetReady \/ SwapNotifiers \/ SwapConfig \/ Report
Environment == EditFile \/ Rotate \/ Hangup \/ ReloadConfig \/ Crash

Next ==
    \/ Environment
    \/ HangupSeen \/ HangupForwarded
    \/ Boot
    \/ TakeRequest \/ Reload
    \/ SchedulerReconciles

\* The main task, the SIGHUP task and the scheduler keep running; nothing is
\* asked of the one who edits, sends requests or starts the process.
Fairness ==
    /\ WF_vars(HangupSeen) /\ WF_vars(HangupForwarded)
    /\ WF_vars(TakeRequest) /\ WF_vars(Reload)
    /\ WF_vars(SchedulerReconciles)

Spec == Init /\ [][Next]_vars /\ Fairness

-----------------------------------------------------------------------------
(***************************************************************************)
(* Properties.                                                             *)
(***************************************************************************)

Idle == pc = "select" /\ commands = <<>>

\* Between two reloads the four copies of the configuration agree: the checks
\* the scheduler works with are those the shared configuration enables and those
\* the database assigns, of the same kind; the notifiers are the configured
\* ones; readiness says whether every check can be probed; and the database names
\* the settings the scheduler works with, unless a secret changed (perform_reload
\* and reconcile_with_event resolve the configuration one after the other).
CopiesAgree ==
    Idle =>
        /\ active[1] = sharedConfig
        /\ db.assigned = DOMAIN Checks[active]
        /\ DOMAIN Notifiers[sharedNotifiers] = Ids(Parsed[sharedConfig].notifiers)
        /\ probeReady = (IcmpAvailable \/ ~HasIcmp(Checks[active]))
        /\ \A key \in DOMAIN Checks[active] :
              /\ db.checks[key].probe_type = Checks[active][key].probe_kind
              /\ db.checks[key].profile_id = Checks[active][key].profile_id
              /\ <<key, db.checks[key].revision>> \in db.revisions
              /\ rotations = 0 => db.checks[key].revision = RevisionId[<<active, key>>]
        /\ rotations = 0 /\ lastReload.result = "success"
              => db.generation = lastReload.generation

\* A reload that failed left the checks, the configuration, the notifiers and
\* the database as they were when it was taken up (perform_reload changes the
\* running state only after the transaction has committed).
FailureKeepsRunning ==
    [][pc' = "select" /\ lastReload'.result = "failure" => Running' = before]_pc

\* The database assigns to the observer exactly the checks the last committed
\* configuration enables, whatever sequence of removals, disabling and returns
\* of targets and checks led to it (reconcile_with_event).
AssignmentsExact ==
    committed.config # None => db.assigned = Enabled[committed.config]

\* A check that stays active keeps its kind: its rounds, rollups and alert
\* states are read as those of one kind (ProbeTypeMismatch).
KindStable ==
    [][\A key \in DOMAIN db.checks :
          db.checks[key].active /\ db'.checks[key].active
              => db'.checks[key].probe_type = db.checks[key].probe_type]_db

\* The value of a setting of a check: its own, or that of its profile, or the default.
ValueOf(name, profile, check) ==
    CASE name \in DOMAIN check.params -> check.params[name]
      [] name \in DOMAIN profile.params \ DOMAIN check.params -> profile.params[name]
      [] OTHER -> Default[name]

\* The headers of a check, each with its value: its own, and those of its profile
\* that it does not give itself.
HeadersOf(profile, check) ==
    {<<h, Headers(check.params)[h]>> : h \in DOMAIN Headers(check.params)}
        \cup {<<h, Headers(profile.params)[h]>> :
                 h \in DOMAIN Headers(profile.params) \ DOMAIN Headers(check.params)}

BodyOf(profile, check, outside) ==
    IF ValueOf("body", profile, check) = None
    THEN None
    ELSE SecretValue(ValueOf("body", profile, check), outside)

\* What a check is probed with under a configuration, told apart from where in
\* the file it is written and in which unit of time.
ProbedWith(c, outside, key) ==
    LET check == CheckOf(c, key)
        profile == ProfileOf(c, key)
    IN  <<profile.id,
          Millis(IF check.interval = None THEN profile.interval ELSE check.interval),
          Millis(IF check.timeout = None THEN profile.timeout ELSE check.timeout),
          [name \in SettingsOf[profile.kind] \ {"body", "headers"} |->
              ValueOf(name, profile, check)],
          IF profile.kind = "http" THEN HeadersOf(profile, check) ELSE {},
          IF profile.kind = "http" THEN BodyOf(profile, check, outside) ELSE None>>

Probed ==
    Tabulated([input \in RevisionInputs |->
        ProbedWith(Parsed[input[1][1]], input[1][2], input[2])])

\* A commit gives a check another revision exactly when what it is probed with
\* changes: moved values, other targets, a disabled neighbour and a body that moves
\* to a file do not count, an inherited value and a rotated body do
\* (compute_revision_id; the row names it).
RevisionFollowsSettings ==
    [][committed.config # None =>
       LET old == <<committed.config, committed.outside>>
           new == <<committed'.config, committed'.outside>>
       IN  \A key \in Enabled[committed.config] \cap Enabled[committed'.config] :
              (db'.checks[key].revision = db.checks[key].revision)
                  <=> (Probed[<<new, key>>] = Probed[<<old, key>>])]_committed

\* Every request is followed by a read of the file that begins after it, so the
\* edit it was made for is read: also a SIGHUP that came while another one was
\* being forwarded, and a request refused because one was already pending.
EditsTakeEffect == unseen ~> ~unseen
=============================================================================

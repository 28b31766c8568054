------------------------- MODULE ConfigReloadProofs -------------------------
(***************************************************************************)
(* What holds of starts and reloads for every file, every secret and every *)
(* order of edits, requests and deaths of the process.                     *)
(***************************************************************************)
EXTENDS ConfigReload, SequenceTheorems, TLAPS

\* A table is the function it tabulates.
LEMMA TabulatedIs == ASSUME NEW f PROVE Tabulated(f) = f
BY DEF Tabulated

\* What the tables of ConfigReload hold.
LEMMA Tables ==
    /\ \A f \in Loadable :
          /\ Enabled[f] = EnabledKeys(Parsed[f])
          /\ EnabledTargetsOf[f] = EnabledTargets(Parsed[f])
          /\ Configured[f] = ConfiguredKeys(Parsed[f])
    /\ \A fo \in Resolvable : Checks[fo] = Resolved(Parsed[fo[1]], fo[2])
    /\ \A fo \in Buildable : Notifiers[fo] = NotifierMap(Parsed[fo[1]], fo[2])
<1>1. Enabled = [f \in Loadable |-> EnabledKeys(Parsed[f])]
    BY TabulatedIs DEF Enabled
<1>2. EnabledTargetsOf = [f \in Loadable |-> EnabledTargets(Parsed[f])]
    BY TabulatedIs DEF EnabledTargetsOf
<1>3. Configured = [f \in Loadable |-> ConfiguredKeys(Parsed[f])]
    BY TabulatedIs DEF Configured
<1>4. Checks = [fo \in Resolvable |-> Resolved(Parsed[fo[1]], fo[2])]
    BY TabulatedIs DEF Checks
<1>5. Notifiers = [fo \in Buildable |-> NotifierMap(Parsed[fo[1]], fo[2])]
    BY TabulatedIs DEF Notifiers
<1> QED
    BY <1>1, <1>2, <1>3, <1>4, <1>5

-----------------------------------------------------------------------------
(***************************************************************************)
(* The database.  Every check has a row, of a target that has one; of the  *)
(* configuration that was committed last the rows of all enabled checks    *)
(* are there, and no other check is assigned.                              *)
(***************************************************************************)

Row(r) ==
    [active |-> r.active, probe_type |-> r.probe_type, profile_id |-> r.profile_id,
     revision |-> r.revision]

RowsSound ==
    \A key \in DOMAIN db.checks :
        key[1] \in DOMAIN db.targets /\ db.checks[key] = Row(db.checks[key])

CommitStored ==
    LET resolved == <<committed.config, committed.outside>>
    IN  committed.config # None =>
            /\ resolved \in Resolvable
            /\ db.assigned = Enabled[committed.config]
            /\ \A key \in Enabled[committed.config] :
                  /\ key \in DOMAIN db.checks
                  /\ db.checks[key] = CheckRow(resolved, key)
                  /\ <<key, RevisionId[<<resolved, key>>]>> \in db.revisions

DatabaseInv == RowsSound /\ CommitStored

-----------------------------------------------------------------------------
(***************************************************************************)
(* The main task.  Before the commit of a reload the old configuration is  *)
(* everywhere; after it the new one spreads step by step.                  *)
(***************************************************************************)

Booting == {"down", "boot_reconcile", "boot_resolve", "boot_notifiers"}
BeforeCommit == {"select", "load", "resolve", "build", "reconcile"}
AfterCommit == {"hand_over", "set_ready", "swap_notifiers", "swap_config", "report"}

Hand == [config |-> hand.config, order |-> hand.order, resolved |-> hand.resolved,
         generation |-> hand.generation, notifiers |-> hand.notifiers]

\* The checks the scheduler has, or has been sent.
Latest == IF commands = <<>> THEN active ELSE Last(commands)

\* A configuration resolved with what the secrets were before any of them changed.
FirstOutside(outside) == rotations = 0 => outside = InitialSecrets

ReadyFor(resolved) == IcmpAvailable \/ ~HasIcmp(Checks[resolved])

ControlInv ==
    /\ pc \in Booting \cup BeforeCommit \cup AfterCommit
    /\ hand = Hand
    /\ commands \in Seq(Resolvable)
    /\ pc \in Booting => commands = <<>> /\ lastReload.result = None

SecretsInv ==
    /\ rotations \in Nat
    /\ FirstOutside(secretFiles)
    /\ FirstOutside(committed.outside)

HandInv ==
    /\ pc \in {"build", "reconcile"} \cup AfterCommit =>
          /\ hand.resolved \in Resolvable
          /\ hand.resolved[1] = hand.config
          /\ FirstOutside(hand.resolved[2])
          /\ rotations = 0
                => hand.generation = Generation[<<hand.config, hand.order, InitialSecrets>>]
    /\ pc \in {"reconcile"} \cup AfterCommit =>
          hand.notifiers \in Buildable /\ hand.notifiers[1] = hand.config

BootInv ==
    /\ pc \in {"boot_resolve", "boot_notifiers"} => committed.config = hand.config
    /\ pc = "boot_notifiers" =>
          /\ active \in Resolvable
          /\ active[1] = hand.config /\ sharedConfig = hand.config
          /\ FirstOutside(active[2])
          /\ probeReady = ReadyFor(active)

BeforeInv ==
    pc \in BeforeCommit =>
        /\ committed.config = sharedConfig
        /\ Latest \in Resolvable
        /\ Latest[1] = sharedConfig
        /\ FirstOutside(Latest[2])
        /\ sharedNotifiers \in Buildable /\ sharedNotifiers[1] = sharedConfig
        /\ probeReady = ReadyFor(Latest)
        /\ rotations = 0 /\ lastReload.result = "success"
              => db.generation = lastReload.generation

AfterInv ==
    pc \in AfterCommit =>
        /\ committed.config = hand.config
        /\ rotations = 0 => db.generation = hand.generation
        /\ pc # "hand_over" => Latest = hand.resolved
        /\ pc \notin {"hand_over", "set_ready"} => probeReady = ReadyFor(hand.resolved)
        /\ pc \in {"swap_config", "report"} => sharedNotifiers = hand.notifiers
        /\ pc = "report" => sharedConfig = hand.config

CopiesInv ==
    ControlInv /\ SecretsInv /\ HandInv /\ BootInv /\ BeforeInv /\ AfterInv


-----------------------------------------------------------------------------
\* A configuration is resolved from a file that can be loaded.
LEMMA FileOfResolvable ==
    ASSUME NEW fo \in Resolvable
    PROVE  fo[1] \in Loadable /\ fo[1] # None /\ fo = <<fo[1], fo[2]>>
BY NoneAssumption DEF Resolvable, Loadable

\* An enabled check is one of an enabled target, and configured.
LEMMA EnabledIsConfigured ==
    ASSUME NEW f \in Loadable, NEW key \in Enabled[f]
    PROVE  key \in Configured[f] /\ key[1] \in EnabledTargetsOf[f]
BY Tables DEF EnabledKeys

\* The kind in the row of an enabled check is that of its profile.
LEMMA KindOfRow ==
    ASSUME NEW f \in Loadable, NEW o, <<f, o>> \in Resolvable, NEW key \in Enabled[f]
    PROVE  CheckRow(<<f, o>>, key).probe_type = ProfileOf(Parsed[f], key).kind
<1>1. Checks[<<f, o>>] = [k \in EnabledKeys(Parsed[f]) |-> ResolvedCheck(Parsed[f], o, k)]
    BY Tables DEF Resolved
<1>2. key \in EnabledKeys(Parsed[f])
    BY Tables
<1>3. Checks[<<f, o>>][key] = ResolvedCheck(Parsed[f], o, key)
    BY <1>1, <1>2
<1>4. Checks[<<f, o>>][key].probe_kind = ProfileOf(Parsed[f], key).kind
    BY <1>3 DEF ResolvedCheck
<1> QED
    BY <1>4 DEF CheckRow

\* What a reconciliation writes is a row.
LEMMA CheckRowIsRow ==
    ASSUME NEW resolved, NEW key
    PROVE  /\ CheckRow(resolved, key) = Row(CheckRow(resolved, key))
           /\ CheckRow(resolved, key).active
           /\ CheckRow(resolved, key).revision = RevisionId[<<resolved, key>>]
BY DEF CheckRow, Row

\* So is what it leaves.
LEMMA LeftIsRow ==
    ASSUME RowsSound, NEW new, NEW key \in DOMAIN db.checks
    PROVE  /\ Left(new, key) = Row(Left(new, key))
           /\ Left(new, key).active => key[1] \notin EnabledTargetsOf[new]
           /\ Left(new, key).probe_type = db.checks[key].probe_type
<1>1. db.checks[key] = Row(db.checks[key])
    BY DEF RowsSound
<1>2. Left(new, key) = [Row(db.checks[key]) EXCEPT
                           !.active = Row(db.checks[key]).active
                                          /\ key[1] \notin EnabledTargetsOf[new]]
    BY <1>1 DEF Left
<1> QED
    BY <1>2 DEF Row

\* A reconciliation stores the configuration it commits, and keeps the kinds of the
\* checks that are and stay active: the others it assigns were not active.
LEMMA ReconcileStores ==
    ASSUME DatabaseInv, NEW new, NEW order, Reconciles(new), Reconcile(new, order)
    PROVE  /\ DatabaseInv'
           /\ committed' = [config |-> new, outside |-> secretFiles]
           /\ db'.generation = Generation[<<new, order, secretFiles>>]
           /\ \A key \in DOMAIN db.checks :
                 /\ key \in DOMAIN db'.checks
                 /\ db.checks[key].active /\ db'.checks[key].active
                       => db'.checks[key].probe_type = db.checks[key].probe_type
<1> DEFINE resolved == <<new, secretFiles>>
           checks == ReconciledChecks(new)
           targets == ReconciledTargets(new)
<1>1. resolved \in Resolvable /\ new \in Loadable /\ new # None /\ Mismatched(new) = {}
    BY FileOfResolvable DEF Reconciles
<1>2. /\ db'.targets = targets /\ db'.checks = checks
      /\ \A key \in Enabled[new] : <<key, checks[key].revision>> \in db'.revisions
      /\ db'.assigned = Assignments(checks, targets)
      /\ db'.generation = Generation[<<new, order, secretFiles>>]
      /\ committed' = [config |-> new, outside |-> secretFiles]
    BY DEF Reconcile
<1>3. /\ DOMAIN checks = DOMAIN db.checks \cup Enabled[new]
      /\ \A key \in Enabled[new] : checks[key] = CheckRow(resolved, key)
      /\ \A key \in DOMAIN db.checks \ Enabled[new] : checks[key] = Left(new, key)
    BY DEF ReconciledChecks
<1>4. /\ DOMAIN targets = DOMAIN db.targets \cup EnabledTargetsOf[new]
      /\ \A id \in DOMAIN targets : targets[id] = (id \in EnabledTargetsOf[new])
    BY DEF ReconciledTargets
<1>5. \A key \in DOMAIN db.checks :
         /\ key[1] \in DOMAIN db.targets
         /\ Left(new, key) = Row(Left(new, key))
         /\ Left(new, key).active => key[1] \notin EnabledTargetsOf[new]
         /\ Left(new, key).probe_type = db.checks[key].probe_type
    BY LeftIsRow DEF DatabaseInv, RowsSound
<1>6. \A key \in Enabled[new] :
         /\ key[1] \in EnabledTargetsOf[new]
         /\ checks[key] = Row(checks[key]) /\ checks[key].active
    BY <1>1, <1>3, EnabledIsConfigured, CheckRowIsRow
<1>7. RowsSound'
  <2> SUFFICES ASSUME NEW key \in DOMAIN checks
               PROVE  key[1] \in DOMAIN targets /\ checks[key] = Row(checks[key])
      BY <1>2 DEF RowsSound, Row
  <2>1. CASE key \in Enabled[new]
      BY <2>1, <1>4, <1>6
  <2>2. CASE key \in DOMAIN db.checks \ Enabled[new]
      BY <2>2, <1>3, <1>4, <1>5
  <2> QED
      BY <2>1, <2>2, <1>3
<1>8. db'.assigned = Enabled[new]
  <2>1. ASSUME NEW key \in Enabled[new]
        PROVE  key \in Assignments(checks, targets)
      BY <1>3, <1>4, <1>6 DEF Assignments
  <2>2. ASSUME NEW key \in Assignments(checks, targets), key \notin Enabled[new]
        PROVE  FALSE
    <3>1. key \in DOMAIN db.checks \ Enabled[new] /\ checks[key].active /\ targets[key[1]]
        BY <2>2, <1>3 DEF Assignments
    <3>2. key[1] \notin EnabledTargetsOf[new] /\ key[1] \in DOMAIN db.targets
        BY <3>1, <1>3, <1>5
    <3> QED
        BY <3>1, <3>2, <1>4
  <2> QED
      BY <2>1, <2>2, <1>2
<1>9. CommitStored'
  <2>1. \A key \in Enabled[new] :
           /\ key \in DOMAIN db'.checks
           /\ db'.checks[key] = CheckRow(resolved, key)
           /\ <<key, RevisionId[<<resolved, key>>]>> \in db'.revisions
      BY <1>2, <1>3, CheckRowIsRow
  <2> QED
      BY <1>1, <1>2, <1>8, <2>1 DEF CommitStored
<1>10. ASSUME NEW key \in DOMAIN db.checks,
             db.checks[key].active, db'.checks[key].active
      PROVE  db'.checks[key].probe_type = db.checks[key].probe_type
  <2>1. CASE key \in Enabled[new]
    <3>1. ProfileOf(Parsed[new], key).kind = db.checks[key].probe_type
        BY <2>1, <1>10, <1>1, EnabledIsConfigured DEF Mismatched
    <3> QED
        BY <3>1, <2>1, <1>1, <1>2, <1>3, KindOfRow
  <2>2. CASE key \notin Enabled[new]
      BY <2>2, <1>2, <1>3, <1>5
  <2> QED
      BY <2>1, <2>2
<1> QED
    BY <1>2, <1>3, <1>7, <1>9, <1>10 DEF DatabaseInv

\* Nothing but the two reconciliations writes to the database.
LEMMA DatabaseWriters ==
    [Next]_vars =>
        \/ UNCHANGED <<db, committed>>
        \/ \E new, order : Reconciles(new) /\ Reconcile(new, order)
<1> SUFFICES ASSUME Next
             PROVE  \/ UNCHANGED <<db, committed>>
                    \/ \E new, order : Reconciles(new) /\ Reconcile(new, order)
    BY DEF vars
<1>1. CASE Environment
    BY <1>1 DEF Environment, EditFile, Rotate, Hangup, ReloadConfig, Crash
<1>2. CASE HangupSeen \/ HangupForwarded \/ TakeRequest \/ SchedulerReconciles
    BY <1>2 DEF HangupSeen, HangupForwarded, TakeRequest, SchedulerReconciles
<1>3. CASE Boot
    BY <1>3
    DEF Boot, Load, BootReconcile, BootTransactionFails, BootResolve, BootNotifiers, Exits
<1>4. CASE Reload
    BY <1>4
    DEF Reload, LoadNew, ResolveNew, BuildNotifiers, ReconcileNew, TransactionFails, HandOver,
        SetReady, SwapNotifiers, SwapConfig, Report, Fail
<1> QED
    BY <1>1, <1>2, <1>3, <1>4 DEF Next

LEMMA DatabaseInit == Init => DatabaseInv
BY DEF Init, DatabaseInv, RowsSound, CommitStored

LEMMA DatabaseStep == DatabaseInv /\ [Next]_vars => DatabaseInv'
<1> SUFFICES ASSUME DatabaseInv, [Next]_vars PROVE DatabaseInv'
    OBVIOUS
<1>1. CASE UNCHANGED <<db, committed>>
    BY <1>1 DEF DatabaseInv, RowsSound, CommitStored
<1>2. CASE \E new, order : Reconciles(new) /\ Reconcile(new, order)
    BY <1>2, ReconcileStores
<1> QED
    BY <1>1, <1>2, DatabaseWriters

-----------------------------------------------------------------------------
\* The last element of a sequence is that of its tail, if there is one.
LEMMA LastOfTail ==
    ASSUME NEW S, NEW s \in Seq(S), s # <<>>
    PROVE  /\ Tail(s) \in Seq(S)
           /\ Tail(s) = <<>> => Last(s) = Head(s)
           /\ Tail(s) # <<>> => Last(Tail(s)) = Last(s)
<1> DEFINE t == Tail(s)
<1>1. /\ t \in Seq(S) /\ Len(t) = Len(s) - 1
      /\ \A i \in 1..Len(t) : t[i] = s[i + 1]
    BY HeadTailProperties
<1>2. Len(s) \in Nat \ {0} /\ Head(s) = s[1]
    BY EmptySeq
<1> HIDE DEF t
<1>3. ASSUME t = <<>> PROVE Last(s) = Head(s)
  <2>1. Len(s) = 1
      BY <1>1, <1>2, <1>3
  <2> QED
      BY <2>1, <1>2 DEF Last
<1>4. ASSUME t # <<>> PROVE Last(t) = Last(s)
  <2>1. Len(t) \in 1..Len(t)
      BY <1>1, <1>4, EmptySeq
  <2>2. t[Len(t)] = s[Len(t) + 1] /\ Len(t) + 1 = Len(s)
      BY <1>1, <1>2, <2>1
  <2> QED
      BY <2>2 DEF Last
<1> QED
    BY <1>1, <1>3, <1>4 DEF t

\* What the scheduler has or has been sent changes when a configuration is sent.
LEMMA LatestKept ==
    ASSUME commands \in Seq(Resolvable)
    PROVE  /\ UNCHANGED <<commands, active>> => Latest' = Latest
           /\ SchedulerReconciles => Latest' = Latest /\ commands' \in Seq(Resolvable)
           /\ HandOver /\ hand.resolved \in Resolvable
                 => Latest' = hand.resolved /\ commands' \in Seq(Resolvable)
<1>1. UNCHANGED <<commands, active>> => Latest' = Latest
    BY DEF Latest, Last
<1>2. ASSUME SchedulerReconciles
      PROVE  Latest' = Latest /\ commands' \in Seq(Resolvable)
  <2>1. commands # <<>> /\ active' = Head(commands) /\ commands' = Tail(commands)
      BY <1>2 DEF SchedulerReconciles
  <2>2. /\ commands' \in Seq(Resolvable)
        /\ commands' = <<>> => Last(commands) = active'
        /\ commands' # <<>> => Last(commands') = Last(commands)
      BY <2>1, LastOfTail
  <2>3. Latest = Last(commands)
      BY <2>1 DEF Latest
  <2>4. Latest' = IF commands' = <<>> THEN active' ELSE Last(commands')
      BY DEF Latest, Last
  <2> QED
      BY <2>2, <2>3, <2>4
<1>3. ASSUME HandOver, hand.resolved \in Resolvable
      PROVE  Latest' = hand.resolved /\ commands' \in Seq(Resolvable)
    BY <1>3 DEF HandOver, Latest, Last
<1> QED
    BY <1>1, <1>2, <1>3

\* The copies start empty, and each group of steps keeps their invariant.
LEMMA CopiesInit == Init => CopiesInv
BY BoundsAssumption
DEF Init, CopiesInv, ControlInv, SecretsInv, HandInv, BootInv, BeforeInv, AfterInv, Booting,
    BeforeCommit, AfterCommit, Hand, Nothing, FirstOutside

\* The copies of the configuration, and where the main task is: what the steps of the
\* environment leave alone.
copies == <<pc, hand, commands, active, sharedConfig, sharedNotifiers, probeReady, db,
            lastReload, committed>>

LEMMA CopiesUnchanged ==
    ASSUME CopiesInv, rotations' = 0 => rotations = 0, SecretsInv', UNCHANGED copies
    PROVE  CopiesInv'
<1> USE DEF copies, CopiesInv
<1>1. ControlInv'
    BY DEF ControlInv, Hand
<1>2. HandInv'
    BY DEF HandInv, FirstOutside
<1>3. BootInv'
    BY DEF BootInv, FirstOutside, ReadyFor
<1>4. Latest' = Latest
    BY LatestKept DEF ControlInv
<1>5. BeforeInv'
    BY <1>4 DEF BeforeInv, FirstOutside, ReadyFor
<1>6. AfterInv'
    BY <1>4 DEF AfterInv, ReadyFor
<1> QED
    BY <1>1, <1>2, <1>3, <1>5, <1>6

LEMMA EnvironmentKeepsCopies == CopiesInv /\ Environment => CopiesInv'
<1> SUFFICES ASSUME CopiesInv, Environment PROVE CopiesInv'
    OBVIOUS
<1>1. CASE EditFile \/ Hangup \/ ReloadConfig
  <2>1. UNCHANGED copies /\ UNCHANGED <<rotations, secretFiles>>
      BY <1>1 DEF EditFile, Hangup, ReloadConfig, copies, runningVars, environmentVars
  <2>2. SecretsInv'
      BY <2>1 DEF CopiesInv, SecretsInv, FirstOutside, copies
  <2> QED
      BY <2>1, <2>2, CopiesUnchanged
<1>2. CASE Rotate
  <2>1. UNCHANGED copies
      BY <1>2 DEF Rotate, copies, runningVars
  <2>2. rotations' \in Nat \ {0}
      BY <1>2 DEF CopiesInv, SecretsInv, Rotate
  <2> QED
      BY <2>1, <2>2, CopiesUnchanged DEF SecretsInv, FirstOutside
<1>3. CASE Crash
    BY <1>3
    DEF Crash, Nothing, environmentVars, CopiesInv, ControlInv, SecretsInv, HandInv, BootInv,
        BeforeInv, AfterInv, Booting, BeforeCommit, AfterCommit, Hand, FirstOutside
<1> QED
    BY <1>1, <1>2, <1>3 DEF Environment

LEMMA TasksKeepCopies ==
    CopiesInv /\ (HangupSeen \/ HangupForwarded \/ SchedulerReconciles) => CopiesInv'
<1> SUFFICES ASSUME CopiesInv, HangupSeen \/ HangupForwarded \/ SchedulerReconciles
             PROVE  CopiesInv'
    OBVIOUS
<1>1. CASE HangupSeen \/ HangupForwarded
  <2>1. UNCHANGED copies /\ UNCHANGED <<rotations, secretFiles>>
      BY <1>1 DEF HangupSeen, HangupForwarded, copies, runningVars, environmentVars
  <2>2. SecretsInv'
      BY <2>1 DEF CopiesInv, SecretsInv, FirstOutside, copies
  <2> QED
      BY <2>1, <2>2, CopiesUnchanged
<1>2. CASE SchedulerReconciles
  <2>1. Latest' = Latest /\ commands' \in Seq(Resolvable)
      BY <1>2, LatestKept DEF CopiesInv, ControlInv
  <2>2. /\ UNCHANGED <<pc, hand, sharedConfig, sharedNotifiers, probeReady, db, lastReload,
                       committed, rotations, secretFiles>>
        /\ pc \notin Booting
      BY <1>2
      DEF SchedulerReconciles, CopiesInv, ControlInv, environmentVars, Serving, Booting
  <2>3. ControlInv' /\ SecretsInv' /\ HandInv' /\ BootInv'
      BY <2>1, <2>2
      DEF CopiesInv, ControlInv, SecretsInv, HandInv, BootInv, FirstOutside, Hand, Booting
  <2>4. BeforeInv'
      BY <2>1, <2>2 DEF CopiesInv, BeforeInv, FirstOutside, ReadyFor
  <2>5. AfterInv'
      BY <2>1, <2>2 DEF CopiesInv, AfterInv, ReadyFor
  <2> QED
      BY <2>3, <2>4, <2>5 DEF CopiesInv
<1> QED
    BY <1>1, <1>2

LEMMA BootKeepsCopies == CopiesInv /\ Boot => CopiesInv'
<1> SUFFICES ASSUME CopiesInv, Boot PROVE CopiesInv'
    OBVIOUS
<1> USE DEF CopiesInv, ControlInv, SecretsInv, HandInv, BootInv, BeforeInv, AfterInv,
            Booting, BeforeCommit, AfterCommit, Hand, FirstOutside
<1>1. CASE Load
    BY <1>1 DEF Load, Nothing, environmentVars, runningVars
<1>2. ASSUME Exits, pc \in Booting PROVE CopiesInv'
    BY <1>2 DEF Exits, Nothing, environmentVars, runningVars
<1>3. CASE BootReconcile
  <2>1. CASE Reconciles(hand.config)
      BY <1>3, <2>1 DEF BootReconcile, Reconcile, environmentVars, runningVars
  <2>2. CASE ~Reconciles(hand.config)
      BY <1>2, <1>3, <2>2 DEF BootReconcile
  <2> QED
      BY <2>1, <2>2
<1>4. CASE BootTransactionFails
    BY <1>2, <1>4 DEF BootTransactionFails
<1>5. CASE BootResolve
  <2>1. CASE <<hand.config, secretFiles>> \in Resolvable
      BY <1>5, <2>1 DEF BootResolve, environmentVars, ReadyFor
  <2>2. CASE <<hand.config, secretFiles>> \notin Resolvable
      BY <1>2, <1>5, <2>2 DEF BootResolve
  <2> QED
      BY <2>1, <2>2
<1>6. CASE BootNotifiers
  <2>1. CASE <<hand.config, secretFiles>> \in Buildable
      BY <1>6, <2>1, NoneAssumption
      DEF BootNotifiers, environmentVars, ReadyFor, Latest, Nothing
  <2>2. CASE <<hand.config, secretFiles>> \notin Buildable
      BY <1>6, <2>2 DEF BootNotifiers, environmentVars, Nothing
  <2> QED
      BY <2>1, <2>2
<1> QED
    BY <1>1, <1>3, <1>4, <1>5, <1>6 DEF Boot

LEMMA ReloadKeepsCopies == CopiesInv /\ (TakeRequest \/ Reload) => CopiesInv'
<1> SUFFICES ASSUME CopiesInv, TakeRequest \/ Reload PROVE CopiesInv'
    OBVIOUS
<1> USE DEF CopiesInv, ControlInv, SecretsInv, HandInv, BootInv, BeforeInv, AfterInv,
            Booting, BeforeCommit, AfterCommit, Hand, FirstOutside
<1>1. UNCHANGED <<commands, active>> => Latest' = Latest
    BY LatestKept
<1>2. CASE TakeRequest
    BY <1>1, <1>2 DEF TakeRequest, environmentVars, runningVars, ReadyFor
<1>3. ASSUME NEW generation, Fail(generation), pc \in BeforeCommit
      PROVE  CopiesInv'
    BY <1>1, <1>3 DEF Fail, Nothing, environmentVars, runningVars, ReadyFor
<1>4. CASE LoadNew
  <2>1. CASE file \in Loadable
      BY <1>1, <1>4, <2>1 DEF LoadNew, Nothing, environmentVars, runningVars, ReadyFor
  <2>2. CASE file \notin Loadable
      BY <1>3, <1>4, <2>2 DEF LoadNew
  <2> QED
      BY <2>1, <2>2
<1>5. CASE ResolveNew
  <2>1. CASE <<hand.config, secretFiles>> \in Resolvable
    <3>1. /\ hand'.resolved = <<hand.config, secretFiles>>
          /\ hand'.generation = Generation[<<hand.config, hand.order, secretFiles>>]
          /\ hand'.config = hand.config /\ hand'.order = hand.order
          /\ hand' = Hand'
        BY <1>5, <2>1 DEF ResolveNew
    <3>2. /\ pc = "resolve" /\ pc' = "build"
          /\ UNCHANGED <<secretFiles, rotations, runningVars, db, lastReload, committed>>
        BY <1>5, <2>1 DEF ResolveNew, environmentVars
    <3> QED
        BY <1>1, <2>1, <3>1, <3>2 DEF runningVars, ReadyFor
  <2>2. CASE <<hand.config, secretFiles>> \notin Resolvable
      BY <1>3, <1>5, <2>2 DEF ResolveNew
  <2> QED
      BY <2>1, <2>2
<1>6. CASE BuildNotifiers
  <2>1. CASE <<hand.config, secretFiles>> \in Buildable
    <3>1. /\ hand'.notifiers = <<hand.config, secretFiles>>
          /\ hand'.resolved = hand.resolved /\ hand'.generation = hand.generation
          /\ hand'.config = hand.config /\ hand'.order = hand.order
          /\ hand' = Hand'
        BY <1>6, <2>1 DEF BuildNotifiers
    <3>2. /\ pc = "build" /\ pc' = "reconcile"
          /\ UNCHANGED <<secretFiles, rotations, runningVars, db, lastReload, committed>>
        BY <1>6, <2>1 DEF BuildNotifiers, environmentVars
    <3> QED
        BY <1>1, <2>1, <3>1, <3>2 DEF runningVars, ReadyFor
  <2>2. CASE <<hand.config, secretFiles>> \notin Buildable
      BY <1>3, <1>6, <2>2 DEF BuildNotifiers
  <2> QED
      BY <2>1, <2>2
<1>7. CASE ReconcileNew
  <2>1. CASE Reconciles(hand.config)
    <3>1. /\ committed' = [config |-> hand.config, outside |-> secretFiles]
          /\ db'.generation = Generation[<<hand.config, hand.order, secretFiles>>]
        BY <1>7, <2>1 DEF ReconcileNew, Reconcile
    <3>2. /\ pc = "reconcile" /\ pc' = "hand_over"
          /\ UNCHANGED <<secretFiles, rotations, commands, hand>>
        BY <1>7, <2>1 DEF ReconcileNew, environmentVars, runningVars
    <3> QED
        BY <3>1, <3>2
  <2>2. CASE ~Reconciles(hand.config)
      BY <1>3, <1>7, <2>2 DEF ReconcileNew
  <2> QED
      BY <2>1, <2>2
<1>8. CASE TransactionFails
    BY <1>3, <1>8 DEF TransactionFails
<1>9. CASE HandOver
  <2>1. Latest' = hand.resolved /\ commands' \in Seq(Resolvable)
      BY <1>9, LatestKept DEF HandOver
  <2> QED
      BY <1>9, <2>1 DEF HandOver, environmentVars
<1>10. CASE SetReady
    BY <1>1, <1>10 DEF SetReady, environmentVars, ReadyFor
<1>11. CASE SwapNotifiers
    BY <1>1, <1>11 DEF SwapNotifiers, environmentVars, ReadyFor
<1>12. CASE SwapConfig
    BY <1>1, <1>12 DEF SwapConfig, environmentVars, ReadyFor
<1>13. CASE Report
    BY <1>1, <1>13 DEF Report, Nothing, environmentVars, runningVars, ReadyFor
<1> QED
    BY <1>2, <1>4, <1>5, <1>6, <1>7, <1>8, <1>9, <1>10, <1>11, <1>12, <1>13 DEF Reload

LEMMA CopiesStep == CopiesInv /\ [Next]_vars => CopiesInv'
<1> SUFFICES ASSUME CopiesInv, [Next]_vars PROVE CopiesInv'
    OBVIOUS
<1>1. CASE UNCHANGED vars
  <2>1. UNCHANGED copies /\ UNCHANGED <<rotations, secretFiles>>
      BY <1>1 DEF vars, copies, runningVars, environmentVars
  <2>2. SecretsInv'
      BY <2>1 DEF CopiesInv, SecretsInv, FirstOutside, copies
  <2> QED
      BY <2>1, <2>2, CopiesUnchanged
<1>2. CASE Next
    BY <1>2, EnvironmentKeepsCopies, TasksKeepCopies, BootKeepsCopies, ReloadKeepsCopies
    DEF Next
<1> QED
    BY <1>1, <1>2

-----------------------------------------------------------------------------
(***************************************************************************)
(* The theorems.                                                           *)
(***************************************************************************)

LEMMA InvariantsHold == Spec => [](DatabaseInv /\ CopiesInv)
<1>1. Init => DatabaseInv /\ CopiesInv
    BY DatabaseInit, CopiesInit
<1>2. DatabaseInv /\ CopiesInv /\ [Next]_vars => (DatabaseInv /\ CopiesInv)'
    BY DatabaseStep, CopiesStep
<1> QED
    BY <1>1, <1>2, PTL DEF Spec

\* AssignmentsExact: after every commit the observer is assigned exactly the checks the
\* committed configuration enables, whatever was removed, disabled and brought back.
THEOREM AssignedExactly == Spec => []AssignmentsExact
<1>1. DatabaseInv => AssignmentsExact
    BY DEF DatabaseInv, CommitStored, AssignmentsExact
<1> QED
    BY <1>1, InvariantsHold, PTL

\* What a resolved configuration says of an enabled check depends on what could be read
\* only in its settings.
LEMMA SameKindAndProfile ==
    ASSUME NEW fo \in Resolvable, NEW key \in Enabled[fo[1]]
    PROVE  /\ Checks[fo][key].probe_kind = ProfileOf(Parsed[fo[1]], key).kind
           /\ Checks[fo][key].profile_id = ProfileOf(Parsed[fo[1]], key).id
<1>1. fo[1] \in Loadable
    BY FileOfResolvable
<1>2. Checks[fo] = [k \in EnabledKeys(Parsed[fo[1]]) |-> ResolvedCheck(Parsed[fo[1]], fo[2], k)]
    BY Tables DEF Resolved
<1>3. Checks[fo][key] = ResolvedCheck(Parsed[fo[1]], fo[2], key)
    BY <1>1, <1>2, Tables
<1> QED
    BY <1>3 DEF ResolvedCheck

LEMMA CopiesFollow == DatabaseInv /\ CopiesInv => CopiesAgree
<1> SUFFICES ASSUME DatabaseInv, CopiesInv, Idle PROVE CopiesAgree
    BY DEF CopiesAgree
<1> DEFINE stored == <<committed.config, committed.outside>>
<1>1. Latest = active /\ pc \in BeforeCommit
    BY DEF Idle, Latest, BeforeCommit
<1>2. /\ committed.config = sharedConfig
      /\ active \in Resolvable /\ active[1] = sharedConfig /\ FirstOutside(active[2])
      /\ sharedNotifiers \in Buildable /\ sharedNotifiers[1] = sharedConfig
      /\ probeReady = (IcmpAvailable \/ ~HasIcmp(Checks[active]))
      /\ rotations = 0 /\ lastReload.result = "success"
            => db.generation = lastReload.generation
    BY <1>1 DEF CopiesInv, BeforeInv, ReadyFor
<1>3. /\ sharedConfig \in Loadable /\ committed.config # None
      /\ active = <<sharedConfig, active[2]>>
    BY <1>2, FileOfResolvable
<1>4. /\ stored \in Resolvable /\ stored[1] = sharedConfig
      /\ db.assigned = Enabled[sharedConfig]
      /\ \A key \in Enabled[sharedConfig] :
            /\ db.checks[key] = CheckRow(stored, key)
            /\ <<key, RevisionId[<<stored, key>>]>> \in db.revisions
    BY <1>2, <1>3 DEF DatabaseInv, CommitStored
<1>5. DOMAIN Checks[active] = Enabled[sharedConfig]
    BY <1>2, <1>3, Tables DEF Resolved
<1>6. DOMAIN Notifiers[sharedNotifiers] = Ids(Parsed[sharedConfig].notifiers)
    BY <1>2, Tables DEF NotifierMap
<1>7. rotations = 0 => stored = active
    BY <1>2, <1>3 DEF FirstOutside, CopiesInv, SecretsInv
<1>8. ASSUME NEW key \in Enabled[sharedConfig]
      PROVE  /\ db.checks[key].probe_type = Checks[active][key].probe_kind
             /\ db.checks[key].profile_id = Checks[active][key].profile_id
             /\ <<key, db.checks[key].revision>> \in db.revisions
             /\ rotations = 0 => db.checks[key].revision = RevisionId[<<active, key>>]
  <2>1. /\ db.checks[key].probe_type = Checks[stored][key].probe_kind
        /\ db.checks[key].profile_id = Checks[stored][key].profile_id
        /\ db.checks[key].revision = RevisionId[<<stored, key>>]
    <3>1. db.checks[key] = CheckRow(stored, key)
        BY <1>4, <1>8
    <3> QED
        BY <3>1 DEF CheckRow
  <2>2. /\ Checks[stored][key].probe_kind = Checks[active][key].probe_kind
        /\ Checks[stored][key].profile_id = Checks[active][key].profile_id
      BY <1>2, <1>4, <1>8, SameKindAndProfile
  <2> QED
      BY <2>1, <2>2, <1>4, <1>7, <1>8
<1> QED
    BY <1>2, <1>4, <1>5, <1>6, <1>8 DEF CopiesAgree

\* CopiesAgree: between two reloads database, scheduler, shared configuration, notifiers
\* and readiness agree, whatever changed, failed or died between the steps that made them.
THEOREM CopiesAgreement == Spec => []CopiesAgree
BY CopiesFollow, InvariantsHold, PTL

\* An active check that stays active.
KindKept ==
    \A key \in DOMAIN db.checks :
        db.checks[key].active /\ db'.checks[key].active
            => db'.checks[key].probe_type = db.checks[key].probe_type

\* KindStable: no commit changes the kind of a check that is and stays active.
THEOREM KindsAreStable == Spec => KindStable
<1>1. DatabaseInv /\ [Next]_vars => [KindKept]_db
  <2> SUFFICES ASSUME DatabaseInv, [Next]_vars PROVE [KindKept]_db
      OBVIOUS
  <2>1. CASE UNCHANGED <<db, committed>>
      BY <2>1
  <2>2. CASE \E new, order : Reconciles(new) /\ Reconcile(new, order)
      BY <2>2, ReconcileStores DEF KindKept
  <2> QED
      BY <2>1, <2>2, DatabaseWriters
<1> QED
    BY <1>1, InvariantsHold, PTL DEF Spec, KindStable, KindKept

-----------------------------------------------------------------------------
(***************************************************************************)
(* A reload that fails.  Until it commits, a reload has changed nothing.   *)
(***************************************************************************)

Untouched == pc \in BeforeCommit \ {"select"} => before = Running

FailureKeeps == pc' = "select" /\ lastReload'.result = "failure" => Running' = before

LEMMA RunningKept ==
    ASSUME CopiesInv
    PROVE  /\ UNCHANGED runningVars /\ UNCHANGED db => Running' = Running
           /\ SchedulerReconciles => Running' = Running
<1>1. Running = <<Latest, sharedConfig, sharedNotifiers, probeReady, db>>
    BY DEF Running, Latest
<1>2. Running' = <<Latest', sharedConfig', sharedNotifiers', probeReady', db'>>
    BY DEF Running, Latest, Last
<1>3. UNCHANGED runningVars => Latest' = Latest
    BY LatestKept DEF CopiesInv, ControlInv, runningVars
<1>4. SchedulerReconciles => Latest' = Latest
    BY LatestKept DEF CopiesInv, ControlInv
<1> QED
    BY <1>1, <1>2, <1>3, <1>4 DEF runningVars, SchedulerReconciles

LEMMA ReloadStep ==
    CopiesInv /\ Untouched /\ [Next]_vars => Untouched' /\ [FailureKeeps]_pc
<1> SUFFICES ASSUME CopiesInv, Untouched, [Next]_vars
             PROVE  Untouched' /\ [FailureKeeps]_pc
    OBVIOUS
<1> USE DEF Untouched, BeforeCommit
<1>1. CASE UNCHANGED vars
    BY <1>1, RunningKept DEF vars, runningVars
<1>2. CASE EditFile \/ Rotate \/ Hangup \/ ReloadConfig
    BY <1>2, RunningKept DEF EditFile, Rotate, Hangup, ReloadConfig
<1>3. CASE Crash
    BY <1>3 DEF Crash, FailureKeeps
<1>4. CASE HangupSeen \/ HangupForwarded \/ SchedulerReconciles
  <2>1. Running' = Running /\ UNCHANGED <<pc, before>>
      BY <1>4, RunningKept DEF HangupSeen, HangupForwarded, SchedulerReconciles
  <2> QED
      BY <2>1
<1>5. CASE Boot
    BY <1>5, NoneAssumption
    DEF Boot, Load, BootReconcile, BootTransactionFails, BootResolve, BootNotifiers, Exits,
        FailureKeeps, CopiesInv, ControlInv, Booting
<1>6. CASE TakeRequest
    BY <1>6, RunningKept DEF TakeRequest, FailureKeeps
<1>7. ASSUME NEW generation, Fail(generation), pc \in BeforeCommit \ {"select"}
      PROVE  Untouched' /\ [FailureKeeps]_pc
    BY <1>7, RunningKept DEF Fail, FailureKeeps
<1>8. CASE LoadNew \/ ResolveNew \/ BuildNotifiers
    BY <1>7, <1>8, RunningKept DEF LoadNew, ResolveNew, BuildNotifiers, FailureKeeps
<1>9. CASE ReconcileNew \/ TransactionFails
    BY <1>7, <1>9 DEF ReconcileNew, TransactionFails, FailureKeeps
<1>10. CASE HandOver \/ SetReady \/ SwapNotifiers \/ SwapConfig \/ Report
    BY <1>10 DEF HandOver, SetReady, SwapNotifiers, SwapConfig, Report, FailureKeeps
<1> QED
    BY <1>1, <1>2, <1>3, <1>4, <1>5, <1>6, <1>8, <1>9, <1>10 DEF Next, Environment, Reload

\* FailureKeepsRunning: a reload that fails leaves what runs as it was when it began.
THEOREM FailedReloadKeepsRunning == Spec => FailureKeepsRunning
<1>1. Init => Untouched
    BY DEF Init, Untouched, BeforeCommit
<1>2. CopiesInv /\ Untouched /\ [Next]_vars => Untouched' /\ [FailureKeeps]_pc
    BY ReloadStep
<1> QED
    BY <1>1, <1>2, InvariantsHold, PTL DEF Spec, FailureKeepsRunning, FailureKeeps

-----------------------------------------------------------------------------
(***************************************************************************)
(* The revision of a check: two configurations give it the same one        *)
(* exactly when they have it probed with the same, and a row names the     *)
(* revision under the configuration that was committed last.               *)
(***************************************************************************)

\* A file that can be loaded is valid.
LEMMA LoadedIsValid ==
    ASSUME NEW f \in Loadable PROVE Parsed[f] = Content[f] /\ Valid(Parsed[f])
<1>1. Parsed = [g \in Loadable |-> Content[g]]
    BY TabulatedIs DEF Parsed
<1> QED
    BY <1>1 DEF Loadable

\* A configured check is found under its key, with a profile of the file.
LEMMA FoundByKey ==
    ASSUME NEW c, Valid(c), NEW key \in ConfiguredKeys(c)
    PROVE  /\ CheckOf(c, key).id = key[2]
           /\ ValidProfile(ProfileOf(c, key))
<1>0. PICK target \in Members(c.targets) :
          key \in {<<target.id, check.id>> : check \in Members(target.checks)}
    BY DEF ConfiguredKeys
<1>1. PICK check \in Members(target.checks) : key = <<target.id, check.id>>
    BY <1>0
<1>2. TargetOf(c, key) \in Members(c.targets) /\ TargetOf(c, key).id = target.id
    BY <1>1 DEF TargetOf, Entry
<1>3. TargetOf(c, key) = target
    BY <1>1, <1>2 DEF Valid, Unique, Members
<1>4. CheckOf(c, key) \in Members(target.checks) /\ CheckOf(c, key).id = key[2]
    BY <1>1, <1>3 DEF CheckOf, Entry
<1>5. CheckOf(c, key).profile \in Ids(c.profiles)
    BY <1>4, <1>1 DEF Valid, ValidTarget
<1>6. ProfileOf(c, key) \in Members(c.profiles)
    BY <1>5 DEF ProfileOf, Entry, Ids
<1> QED
    BY <1>4, <1>6 DEF Valid

-----------------------------------------------------------------------------
\* A setting that is not merged is the first value given for it.
LEMMA InheritedIsValue ==
    ASSUME NEW profile, NEW check, ValidProfile(profile),
           NEW name \in SettingsOf[profile.kind], name # "headers"
    PROVE  Inherited(name, profile, check) = ValueOf(name, profile, check)
<1> DEFINE below == Extended(Default, profile.params)
<1>1. name \in DOMAIN Default \cup DOMAIN profile.params
    BY DEF ValidProfile
<1>2. /\ DOMAIN below = DOMAIN Default \cup DOMAIN profile.params
      /\ below[name] = IF name \in DOMAIN profile.params
                       THEN profile.params[name] ELSE Default[name]
    BY <1>1 DEF Extended
<1> HIDE DEF below
<1>3. Extended(below, check.params)[name]
         = IF name \in DOMAIN check.params THEN check.params[name] ELSE below[name]
    BY <1>1, <1>2 DEF Extended
<1>4. Inherited(name, profile, check) = Extended(below, check.params)[name]
    BY DEF Inherited, below
<1>5. CASE name \in DOMAIN check.params
    BY <1>5, <1>3, <1>4 DEF ValueOf
<1>6. CASE name \in DOMAIN profile.params \ DOMAIN check.params
    BY <1>6, <1>2, <1>3, <1>4 DEF ValueOf
<1>7. CASE name \notin DOMAIN profile.params \cup DOMAIN check.params
    BY <1>7, <1>2, <1>3, <1>4 DEF ValueOf
<1> QED
    BY <1>5, <1>6, <1>7

\* The effective settings, each on its own.
LEMMA EffectiveIs ==
    ASSUME NEW profile, NEW check, NEW outside, ValidProfile(profile)
    PROVE  /\ DOMAIN Effective(profile, check, outside) = SettingsOf[profile.kind]
           /\ \A name \in SettingsOf[profile.kind] \ {"body", "headers"} :
                 Effective(profile, check, outside)[name] = ValueOf(name, profile, check)
           /\ profile.kind = "http" =>
                 /\ Effective(profile, check, outside)["headers"]
                       = Extended(Headers(profile.params), Headers(check.params))
                 /\ Effective(profile, check, outside)["body"] = BodyOf(profile, check, outside)
           /\ Effective(profile, check, outside)
                 = [name \in SettingsOf[profile.kind] |->
                       Effective(profile, check, outside)[name]]
<1> DEFINE s == Settings(profile, check)
           e == Effective(profile, check, outside)
           names == SettingsOf[profile.kind]
<1>1. /\ s = [name \in names |-> s[name]] /\ DOMAIN s = names
      /\ \A name \in names : s[name] = Inherited(name, profile, check)
    BY DEF Settings
<1>2. e = IF profile.kind = "http" /\ s["body"] # None
          THEN [s EXCEPT !["body"] = SecretValue(s["body"], outside)] ELSE s
    BY DEF Effective
<1>3. profile.kind = "http" => {"body", "headers"} \subseteq names
    BY DEF SettingsOf
<1> HIDE DEF s, e, names
<1>4. /\ e = [name \in names |-> e[name]] /\ DOMAIN e = names
      /\ \A name \in names \ {"body"} : e[name] = s[name]
    BY <1>1, <1>2
<1>5. profile.kind = "http" =>
         e["body"] = IF s["body"] = None THEN None ELSE SecretValue(s["body"], outside)
    BY <1>1, <1>2, <1>3
<1>6. \A name \in names \ {"headers"} : s[name] = ValueOf(name, profile, check)
    BY <1>1, InheritedIsValue DEF names
<1>7. "headers" \in names =>
         s["headers"] = Extended(Headers(profile.params), Headers(check.params))
    BY <1>1 DEF Inherited
<1>8. profile.kind = "http" => e["body"] = BodyOf(profile, check, outside)
    BY <1>3, <1>5, <1>6 DEF BodyOf
<1> QED
    BY <1>3, <1>4, <1>6, <1>7, <1>8 DEF e, names

\* Two maps extended are the same when the same names have the same values.
LEMMA ExtendedApart ==
    ASSUME NEW p1, NEW c1, NEW p2, NEW c2
    PROVE  (Extended(Headers(p1.params), Headers(c1.params))
               = Extended(Headers(p2.params), Headers(c2.params)))
              <=> (HeadersOf(p1, c1) = HeadersOf(p2, c2))
<1> DEFINE f(p, c) == Extended(Headers(p.params), Headers(c.params))
<1>1. ASSUME NEW p, NEW c
      PROVE  /\ f(p, c) = [h \in DOMAIN f(p, c) |-> f(p, c)[h]]
             /\ \A h, v : <<h, v>> \in HeadersOf(p, c) <=> h \in DOMAIN f(p, c) /\ v = f(p, c)[h]
             /\ \A pair \in HeadersOf(p, c) : pair = <<pair[1], pair[2]>>
  <2> DEFINE a == Headers(p.params)
             b == Headers(c.params)
  <2>1. f(p, c) = [h \in DOMAIN a \cup DOMAIN b |-> IF h \in DOMAIN b THEN b[h] ELSE a[h]]
      BY DEF Extended
  <2>2. HeadersOf(p, c) = {<<h, b[h]>> : h \in DOMAIN b}
                              \cup {<<h, a[h]>> : h \in DOMAIN a \ DOMAIN b}
      BY DEF HeadersOf
  <2> HIDE DEF a, b, f
  <2> QED
      BY <2>1, <2>2
<1>2. f(p1, c1) = f(p2, c2) => HeadersOf(p1, c1) = HeadersOf(p2, c2)
  <2> SUFFICES ASSUME f(p1, c1) = f(p2, c2), NEW pair
               PROVE  pair \in HeadersOf(p1, c1) <=> pair \in HeadersOf(p2, c2)
      BY <1>1
  <2> HIDE DEF f
  <2> QED
      BY <1>1
<1>3. ASSUME HeadersOf(p1, c1) = HeadersOf(p2, c2)
      PROVE  f(p1, c1) = f(p2, c2)
  <2> HIDE DEF f
  <2>1. ASSUME NEW h \in DOMAIN f(p1, c1)
        PROVE  h \in DOMAIN f(p2, c2) /\ f(p2, c2)[h] = f(p1, c1)[h]
    <3>1. <<h, f(p1, c1)[h]>> \in HeadersOf(p1, c1)
        BY <1>1
    <3>2. <<h, f(p1, c1)[h]>> \in HeadersOf(p2, c2)
        BY <3>1, <1>3
    <3> QED
        BY <3>2, <1>1
  <2>2. ASSUME NEW h \in DOMAIN f(p2, c2)
        PROVE  h \in DOMAIN f(p1, c1)
    <3>1. <<h, f(p2, c2)[h]>> \in HeadersOf(p2, c2)
        BY <1>1
    <3>2. <<h, f(p2, c2)[h]>> \in HeadersOf(p1, c1)
        BY <3>1, <1>3
    <3> QED
        BY <3>2, <1>1
  <2> QED
      BY <1>1, <2>1, <2>2
<1> QED
    BY <1>2, <1>3

\* Kinds are told apart by their settings, with and without headers and body.
LEMMA KindsApart ==
    ASSUME NEW k1 \in Kinds, NEW k2 \in Kinds,
           SettingsOf[k1] \ {"body", "headers"} = SettingsOf[k2] \ {"body", "headers"}
    PROVE  k1 = k2
<1> DEFINE rest(k) == SettingsOf[k] \ {"body", "headers"}
<1>1. /\ "count" \in rest("icmp") /\ "url" \in rest("http")
      /\ "host" \in rest("tcp") /\ "domain" \in rest("dns")
      /\ "count" \notin rest("http") \cup rest("tcp") \cup rest("dns")
      /\ "url" \notin rest("icmp") \cup rest("tcp") \cup rest("dns")
      /\ "host" \notin rest("icmp") \cup rest("http") \cup rest("dns")
    BY DEF SettingsOf
<1>2. rest(k1) = rest(k2)
    OBVIOUS
<1> HIDE DEF rest
<1> QED
    BY <1>1, <1>2 DEF Kinds

-----------------------------------------------------------------------------
\* Two checks with the same name have the same revision when they are probed with
\* the same.
LEMMA RevisionsApart ==
    ASSUME NEW c1, NEW c2, Valid(c1), Valid(c2), NEW o1, NEW o2,
           NEW key \in ConfiguredKeys(c1) \cap ConfiguredKeys(c2)
    PROVE  (Revision(CheckOf(c1, key), ProfileOf(c1, key), o1)
               = Revision(CheckOf(c2, key), ProfileOf(c2, key), o2))
              <=> (ProbedWith(c1, o1, key) = ProbedWith(c2, o2, key))
<1> DEFINE check(c) == CheckOf(c, key)
           profile(c) == ProfileOf(c, key)
           interval(c) == Millis(OwnOr(check(c).interval, profile(c).interval))
           timeout(c) == Millis(OwnOr(check(c).timeout, profile(c).timeout))
           e(c, o) == Effective(profile(c), check(c), o)
           plain(c) == [name \in SettingsOf[profile(c).kind] \ {"body", "headers"} |->
                           ValueOf(name, profile(c), check(c))]
           headers(c) == HeadersOf(profile(c), check(c))
           body(c, o) == BodyOf(profile(c), check(c), o)
<1>1. \A c \in {c1, c2} :
         check(c).id = key[2] /\ ValidProfile(profile(c)) /\ profile(c).kind \in Kinds
    BY FoundByKey DEF ValidProfile
<1>2. (Revision(check(c1), profile(c1), o1) = Revision(check(c2), profile(c2), o2))
         <=> /\ check(c1).id = check(c2).id
             /\ profile(c1).id = profile(c2).id
             /\ interval(c1) = interval(c2)
             /\ timeout(c1) = timeout(c2)
             /\ e(c1, o1) = e(c2, o2)
    BY DEF Revision
<1>3. (ProbedWith(c1, o1, key) = ProbedWith(c2, o2, key))
         <=> /\ profile(c1).id = profile(c2).id
             /\ interval(c1) = interval(c2)
             /\ timeout(c1) = timeout(c2)
             /\ plain(c1) = plain(c2)
             /\ (IF profile(c1).kind = "http" THEN headers(c1) ELSE {})
                   = (IF profile(c2).kind = "http" THEN headers(c2) ELSE {})
             /\ (IF profile(c1).kind = "http" THEN body(c1, o1) ELSE None)
                   = (IF profile(c2).kind = "http" THEN body(c2, o2) ELSE None)
    BY DEF ProbedWith, OwnOr
<1>4. plain(c1) = plain(c2) => profile(c1).kind = profile(c2).kind
  <2>1. \A c \in {c1, c2} :
           DOMAIN plain(c) = SettingsOf[profile(c).kind] \ {"body", "headers"}
      OBVIOUS
  <2> HIDE DEF plain
  <2> QED
      BY <1>1, <2>1, KindsApart
<1>5. e(c1, o1) = e(c2, o2) => profile(c1).kind = profile(c2).kind
  <2>1. e(c1, o1) = e(c2, o2) => SettingsOf[profile(c1).kind] = SettingsOf[profile(c2).kind]
      BY <1>1, EffectiveIs
  <2> QED
      BY <1>1, <2>1, KindsApart
<1>6. ASSUME profile(c1).kind = profile(c2).kind
      PROVE  (e(c1, o1) = e(c2, o2))
                <=> /\ plain(c1) = plain(c2)
                    /\ profile(c1).kind = "http" =>
                          headers(c1) = headers(c2) /\ body(c1, o1) = body(c2, o2)
  <2> DEFINE names == SettingsOf[profile(c1).kind]
             http == profile(c1).kind = "http"
             f(c) == Extended(Headers(profile(c).params), Headers(check(c).params))
             v(c, name) == ValueOf(name, profile(c), check(c))
  <2>1. /\ e(c1, o1) = [name \in names |-> e(c1, o1)[name]]
        /\ \A name \in names \ {"body", "headers"} : e(c1, o1)[name] = v(c1, name)
        /\ http => e(c1, o1)["headers"] = f(c1) /\ e(c1, o1)["body"] = body(c1, o1)
      BY <1>1, EffectiveIs
  <2>2. /\ e(c2, o2) = [name \in names |-> e(c2, o2)[name]]
        /\ \A name \in names \ {"body", "headers"} : e(c2, o2)[name] = v(c2, name)
        /\ http => e(c2, o2)["headers"] = f(c2) /\ e(c2, o2)["body"] = body(c2, o2)
      BY <1>1, <1>6, EffectiveIs
  <2>3. (f(c1) = f(c2)) <=> (headers(c1) = headers(c2))
      BY ExtendedApart
  <2>4. /\ plain(c1) = [name \in names \ {"body", "headers"} |-> v(c1, name)]
        /\ plain(c2) = [name \in names \ {"body", "headers"} |-> v(c2, name)]
      BY <1>6
  <2>5. IF http THEN {"body", "headers"} \subseteq names
                ELSE "body" \notin names /\ "headers" \notin names
      BY <1>1 DEF SettingsOf, Kinds
  <2> HIDE DEF names, http, f, v, e, plain, headers, body
  <2>6. (plain(c1) = plain(c2))
           <=> \A name \in names \ {"body", "headers"} : v(c1, name) = v(c2, name)
      BY <2>4
  <2>7. (e(c1, o1) = e(c2, o2)) <=> \A name \in names : e(c1, o1)[name] = e(c2, o2)[name]
      BY <2>1, <2>2
  <2>8. (\A name \in names : e(c1, o1)[name] = e(c2, o2)[name])
           <=> /\ \A name \in names \ {"body", "headers"} : v(c1, name) = v(c2, name)
               /\ http => f(c1) = f(c2) /\ body(c1, o1) = body(c2, o2)
      BY <2>1, <2>2, <2>5
  <2>9. (e(c1, o1) = e(c2, o2))
           <=> /\ plain(c1) = plain(c2)
               /\ http => headers(c1) = headers(c2) /\ body(c1, o1) = body(c2, o2)
      BY <2>3, <2>6, <2>7, <2>8
  <2> QED
      BY <2>9 DEF http
<1> HIDE DEF check, profile, interval, timeout, e, plain, headers, body
<1> QED
    BY <1>1, <1>2, <1>3, <1>4, <1>5, <1>6 DEF check, profile

\* The names of two inputs of a hash are the same when the hashes are.
LEMMA AlikeNamed ==
    ASSUME NEW hash, NEW x \in DOMAIN hash, NEW y \in DOMAIN hash
    PROVE  (FirstAlike(hash)[x] = FirstAlike(hash)[y]) <=> (hash[x] = hash[y])
<1> DEFINE first(i) == CHOOSE other \in DOMAIN hash : hash[other] = hash[i]
<1>1. FirstAlike(hash)[x] = first(x) /\ FirstAlike(hash)[y] = first(y)
    BY DEF FirstAlike
<1>2. hash[first(x)] = hash[x] /\ hash[first(y)] = hash[y]
    OBVIOUS
<1>3. hash[x] = hash[y] => first(x) = first(y)
    OBVIOUS
<1> HIDE DEF first
<1> QED
    BY <1>1, <1>2, <1>3

\* The revisions of a check under two configurations that enable it.
LEMMA RevisionsOfFiles ==
    ASSUME NEW a \in Resolvable, NEW b \in Resolvable,
           NEW key \in Enabled[a[1]] \cap Enabled[b[1]]
    PROVE  (RevisionId[<<a, key>>] = RevisionId[<<b, key>>])
              <=> (Probed[<<a, key>>] = Probed[<<b, key>>])
<1> DEFINE hash == [input \in RevisionInputs |->
                       <<input[2], Checks[input[1]][input[2]].revision_id>>]
           revision(r) == Revision(CheckOf(Parsed[r[1]], key), ProfileOf(Parsed[r[1]], key), r[2])
<1>1. ASSUME NEW r \in {a, b}
      PROVE  /\ r[1] \in Loadable /\ Valid(Parsed[r[1]])
             /\ key \in ConfiguredKeys(Parsed[r[1]])
             /\ <<r, key>> \in RevisionInputs
             /\ Checks[r][key].revision_id = revision(r)
  <2>1. r \in Resolvable /\ r[1] \in Loadable /\ key \in Enabled[r[1]]
      BY <1>1, FileOfResolvable
  <2>2. key \in EnabledKeys(Parsed[r[1]])
      BY <2>1, Tables
  <2>3. Checks[r] = [k \in EnabledKeys(Parsed[r[1]]) |-> ResolvedCheck(Parsed[r[1]], r[2], k)]
      BY <2>1, Tables DEF Resolved
  <2>4. Checks[r][key] = ResolvedCheck(Parsed[r[1]], r[2], key)
      BY <2>2, <2>3
  <2>5. Checks[r][key].revision_id = revision(r)
      BY <2>4 DEF ResolvedCheck
  <2>6. <<r, key>> \in RevisionInputs
      BY <2>1, <2>2, <2>3 DEF RevisionInputs
  <2> QED
      BY <2>1, <2>2, <2>5, <2>6, LoadedIsValid DEF EnabledKeys
<1>2. RevisionId = FirstAlike(hash)
    BY TabulatedIs DEF RevisionId
<1>3. /\ DOMAIN hash = RevisionInputs
      /\ hash[<<a, key>>] = <<key, Checks[a][key].revision_id>>
      /\ hash[<<b, key>>] = <<key, Checks[b][key].revision_id>>
    BY <1>1
<1>4. Probed = [input \in RevisionInputs |->
                   ProbedWith(Parsed[input[1][1]], input[1][2], input[2])]
    BY TabulatedIs DEF Probed
<1>5. /\ Probed[<<a, key>>] = ProbedWith(Parsed[a[1]], a[2], key)
      /\ Probed[<<b, key>>] = ProbedWith(Parsed[b[1]], b[2], key)
    BY <1>1, <1>4
<1>6. (revision(a) = revision(b)) <=> (Probed[<<a, key>>] = Probed[<<b, key>>])
    BY <1>1, <1>5, RevisionsApart
<1> HIDE DEF hash, revision
<1>7. (RevisionId[<<a, key>>] = RevisionId[<<b, key>>])
         <=> (hash[<<a, key>>] = hash[<<b, key>>])
    BY <1>1, <1>2, <1>3, AlikeNamed
<1> QED
    BY <1>1, <1>3, <1>6, <1>7

RevisionFollows ==
    committed.config # None =>
       LET old == <<committed.config, committed.outside>>
           new == <<committed'.config, committed'.outside>>
       IN  \A key \in Enabled[committed.config] \cap Enabled[committed'.config] :
              (db'.checks[key].revision = db.checks[key].revision)
                  <=> (Probed[<<new, key>>] = Probed[<<old, key>>])

LEMMA RevisionStep ==
    DatabaseInv /\ DatabaseInv' /\ [Next]_vars => [RevisionFollows]_committed
<1> SUFFICES ASSUME DatabaseInv, DatabaseInv', [Next]_vars,
                    committed' # committed, committed.config # None
             PROVE  RevisionFollows
    BY DEF RevisionFollows
<1>1. PICK new, order : Reconciles(new) /\ Reconcile(new, order)
    BY DatabaseWriters
<1>2. committed' = [config |-> new, outside |-> secretFiles] /\ new # None
    BY <1>1, ReconcileStores, FileOfResolvable DEF Reconciles
<1> DEFINE a == <<committed.config, committed.outside>>
           b == <<committed'.config, committed'.outside>>
<1>3. /\ a \in Resolvable
      /\ \A key \in Enabled[committed.config] :
            db.checks[key].revision = RevisionId[<<a, key>>]
  <2>1. /\ a \in Resolvable
        /\ \A key \in Enabled[committed.config] : db.checks[key] = CheckRow(a, key)
      BY DEF DatabaseInv, CommitStored
  <2> HIDE DEF a
  <2> QED
      BY <2>1, CheckRowIsRow
<1>4. /\ b \in Resolvable
      /\ \A key \in Enabled[committed'.config] :
            db'.checks[key].revision = RevisionId[<<b, key>>]
  <2>1. /\ b \in Resolvable
        /\ \A key \in Enabled[committed'.config] : db'.checks[key] = CheckRow(b, key)
      BY <1>2 DEF DatabaseInv, CommitStored, CheckRow
  <2> HIDE DEF b
  <2> QED
      BY <2>1, CheckRowIsRow
<1>5. ASSUME NEW key \in Enabled[committed.config] \cap Enabled[committed'.config]
      PROVE  (db'.checks[key].revision = db.checks[key].revision)
                <=> (Probed[<<b, key>>] = Probed[<<a, key>>])
  <2>1. key \in Enabled[a[1]] \cap Enabled[b[1]]
      BY <1>5
  <2>2. (RevisionId[<<a, key>>] = RevisionId[<<b, key>>])
           <=> (Probed[<<a, key>>] = Probed[<<b, key>>])
      BY <1>3, <1>4, <2>1, RevisionsOfFiles
  <2> QED
      BY <1>3, <1>4, <1>5, <2>2
<1> QED
    BY <1>5 DEF RevisionFollows

\* RevisionFollowsSettings: from commit to commit the revision in the row of a check
\* changes exactly when what the check is probed with changes.
THEOREM RevisionsFollow == Spec => RevisionFollowsSettings
<1>1. DatabaseInv /\ [Next]_vars => DatabaseInv'
    BY DatabaseStep
<1>2. DatabaseInv /\ DatabaseInv' /\ [Next]_vars => [RevisionFollows]_committed
    BY RevisionStep
<1> QED
    BY <1>1, <1>2, DatabaseInit, PTL DEF Spec, RevisionFollowsSettings, RevisionFollows

=============================================================================

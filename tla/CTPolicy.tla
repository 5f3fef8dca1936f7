----------------------------- MODULE CTPolicy -----------------------------
(***************************************************************************)
(* The CT policies of package ctpolicy: how a policy splits the approved   *)
(* Logs into groups that each need a number of SCTs, and the weights of a  *)
(* group, which callers may change while others draw submission sessions   *)
(* from it.  SubmissionRaces takes the groups from here.                   *)
(*                                                                         *)
(* A weight is -1 (negative, refused), 0 (never drawn) or 1 (positive).    *)
(***************************************************************************)
EXTENDS Integers, FiniteSets

CONSTANTS
    Logs,           \* URLs of all Logs, a finite set
    GoogleLogs,     \* those of an operator that is GoogleOperated
    Months, Days,   \* dates are a month, counted from some year, and a day
    Threads         \* callers of the group's methods

VARIABLES
    approved,       \* the log list given to LogsByGroup
    cert,           \* the certificate: its NotBefore and NotAfter
    logWeights,     \* LogWeights of the base group
    lock,           \* wMu: the writer that holds it, or NoThread
    pc,
    local,          \* the weights a thread was given or has copied
    session         \* the latest submission session

vars == <<approved, cert, logWeights, lock, pc, local, session>>

NoThread == "none"
Weights == {-1, 0, 1}
NoWeights == [l \in {} |-> 0]
CalendarDates == [month : Months, day : Days]
Before(d, e) == d.month < e.month \/ (d.month = e.month /\ d.day < e.day)
Validities == {c \in [notBefore : CalendarDates, notAfter : CalendarDates] : ~Before(c.notAfter, c.notBefore)}

\* No policy gives an empty LogPolicyData: it stands for the error.
Error == {}

(***************************************************************************)
(* The policies.                                                           *)
(***************************************************************************)
LifetimeInMonths(c) ==
    c.notAfter.month - c.notBefore.month
        - (IF c.notAfter.day < c.notBefore.day THEN 1 ELSE 0)

IncCount(months) ==
    IF months < 15 THEN 2 ELSE IF months <= 27 THEN 3 ELSE IF months <= 39 THEN 4 ELSE 5

\* populate and setMinInclusions: a group that is too small is an error.
Group(logs, min) == [logs |-> logs, min |-> min]
IsReachable(g) == g.min <= Cardinality(g.logs)

BaseGroup(logs, months) == Group(logs, IncCount(months))

AppleGroups(logs, months) == {BaseGroup(logs, months)}
ChromeGroups(logs, months) ==
    {Group(logs \cap GoogleLogs, 1), Group(logs \ GoogleLogs, 1), BaseGroup(logs, months)}

LogsByGroup(groups) == IF \A g \in groups : IsReachable(g) THEN groups ELSE Error

----------------------------------------------------------------------------
(***************************************************************************)
(* The weights of the base group.  When BaseGroupFor fails there is no     *)
(* group and nothing happens.                                              *)
(***************************************************************************)
base == BaseGroup(approved, LifetimeInMonths(cert))
HasGroup == LogsByGroup({base}) # Error

TypeOK ==
    /\ approved \subseteq Logs /\ cert \in [notBefore : CalendarDates, notAfter : CalendarDates]
    /\ logWeights \in [approved -> {0, 1}]
    /\ lock \in Threads \cup {NoThread}
    /\ pc \in [Threads -> {"idle", "reset", "assign", "swap", "draw"}]
    /\ \A t \in Threads : local[t] \in UNION {[S -> {0, 1}] : S \in SUBSET Logs}
    /\ session \subseteq approved

Init ==
    /\ approved \in SUBSET Logs /\ cert \in Validities
    /\ logWeights = [l \in approved |-> 1]
    /\ lock = NoThread
    /\ pc = [t \in Threads |-> "idle"]
    /\ local = [t \in Threads |-> NoWeights]
    /\ session = approved

Positive(w) == {l \in DOMAIN w \cap approved : w[l] > 0}

\* At least one weight must be positive, even for a minimum of zero.
SatisfyMinimalInclusionMutant(w) == Positive(w) # {}
SatisfyMinimalInclusion(w) ==
    Positive(w) # {} /\ Cardinality(Positive(w)) >= base.min

Goto(t, label) == pc' = [pc EXCEPT ![t] = label]
End(t) == Goto(t, "idle") /\ local' = [local EXCEPT ![t] = NoWeights]

\* SetLogWeights checks what it is given, for Logs of the group or not, and
\* takes the lock.
SetLogWeights(t) ==
    /\ pc[t] = "idle"
    /\ \E S \in SUBSET Logs : \E w \in [S -> Weights] :
          /\ \A l \in S : w[l] >= 0
          /\ SatisfyMinimalInclusion(w)
          /\ local' = [local EXCEPT ![t] = w]
    /\ lock = NoThread /\ lock' = t
    /\ Goto(t, "reset")
    /\ UNCHANGED <<approved, cert, logWeights, session>>

\* The map is changed in place.
ResetWeights(t) ==
    /\ pc[t] = "reset"
    /\ logWeights' = [l \in approved |-> 0]
    /\ Goto(t, "assign")
    /\ UNCHANGED <<approved, cert, lock, local, session>>

AssignWeights(t) ==
    /\ pc[t] = "assign"
    /\ logWeights' = [l \in approved |->
                        IF l \in DOMAIN local[t] THEN local[t][l] ELSE logWeights[l]]
    /\ lock' = NoThread
    /\ End(t)
    /\ UNCHANGED <<approved, cert, session>>

\* SetLogWeight copies the weights without the lock and checks the copy...
SetLogWeight(t) ==
    /\ pc[t] = "idle"
    /\ \E l \in approved, w \in {0, 1} :
          LET newWeights == [logWeights EXCEPT ![l] = w] IN
          /\ SatisfyMinimalInclusion(newWeights)
          /\ local' = [local EXCEPT ![t] = newWeights]
    /\ Goto(t, "swap")
    /\ UNCHANGED <<approved, cert, logWeights, lock, session>>

\* ... and puts it in place under the lock.
SwapWeights(t) ==
    /\ pc[t] = "swap"
    /\ lock = NoThread
    /\ logWeights' = local[t]
    /\ End(t)
    /\ UNCHANGED <<approved, cert, lock, session>>

\* GetSubmissionSession copies the weights before it takes the read lock...
GetSubmissionSession(t) ==
    /\ pc[t] = "idle"
    /\ local' = [local EXCEPT ![t] = logWeights]
    /\ Goto(t, "draw")
    /\ UNCHANGED <<approved, cert, logWeights, lock, session>>

\* ... and then draws every Log of positive weight, in some order.
DrawSession(t) ==
    /\ pc[t] = "draw"
    /\ lock = NoThread
    /\ session' = Positive(local[t])
    /\ End(t)
    /\ UNCHANGED <<approved, cert, logWeights, lock>>

Next == \E t \in Threads :
    /\ HasGroup
    /\ \/ SetLogWeights(t) \/ ResetWeights(t) \/ AssignWeights(t)
       \/ SetLogWeight(t) \/ SwapWeights(t)
       \/ GetSubmissionSession(t) \/ DrawSession(t)

Spec == Init /\ [][Next]_vars

----------------------------------------------------------------------------
(***************************************************************************)
(* Properties.                                                             *)
(***************************************************************************)
\* What the policies ask of a set of SCTs: two to five by the lifetime, and
\* for Chrome one from Google and one from someone else.  HasLived says that
\* the same day so many months later is not after NotAfter.
HasLived(months) ==
    LET m == cert.notBefore.month + months IN
    \/ m < cert.notAfter.month
    \/ m = cert.notAfter.month /\ cert.notBefore.day <= cert.notAfter.day
NeededSCTs ==
    IF HasLived(40) THEN 5 ELSE IF HasLived(28) THEN 4 ELSE IF HasLived(15) THEN 3 ELSE 2
AppleCompliant(S) == Cardinality(S) >= NeededSCTs
ChromeCompliant(S) ==
    AppleCompliant(S) /\ S \cap GoogleLogs # {} /\ S \ GoogleLogs # {}

Satisfies(S, groups) == \A g \in groups : Cardinality(S \cap g.logs) >= g.min

\* SCTs that complete every group, which is what GetSCTs collects, are SCTs
\* that comply with the policy, and conversely (applepolicy.go:28,
\* chromepolicy.go:29); and LogsByGroup fails exactly when no choice of
\* approved Logs complies, although it looks at the groups one by one:
\* 'Returns an error if it's not possible to satisfy the policy with the
\* provided loglist' (chromepolicy.go:28).
GroupsMeanCompliance ==
    LET months == LifetimeInMonths(cert)
        chrome == ChromeGroups(approved, months)
        apple == AppleGroups(approved, months)
    IN
    /\ \A S \in SUBSET approved :
        /\ Satisfies(S, chrome) <=> ChromeCompliant(S)
        /\ Satisfies(S, apple) <=> AppleCompliant(S)
    /\ (LogsByGroup(chrome) = Error) <=> (\A S \in SUBSET approved : ~ChromeCompliant(S))
    /\ (LogsByGroup(apple) = Error) <=> (\A S \in SUBSET approved : ~AppleCompliant(S))

\* No sequence of weight changes, overlapping or not, leaves the group unable
\* to reach its minimum once the writers are done (ctpolicy.go:110, 127).
WeightsReachMin ==
    HasGroup /\ lock = NoThread => Cardinality(Positive(logWeights)) >= base.min
============================================================================

------------------------------ MODULE Platform ------------------------------
(***************************************************************************)
(* The control plane of the service: which communities (tenants) exist,    *)
(* their lifecycle and features, the trail of what operators did, their    *)
(* backups, and the gate that members' writes pass.                        *)
(*                                                                         *)
(* All of it lives in module variables of one process and nothing is       *)
(* persisted; every handler runs to its end without yielding, so an action *)
(* is a whole handler.  The first thing a platform handler does is to      *)
(* rebuild what the deployment configures (Booted).  Customers and their   *)
(* onboarding are absent: those handlers require a tenantId in the body    *)
(* and refuse any body with one, so no customer ever exists.               *)
(***************************************************************************)
EXTENDS Naturals, Sequences, FiniteSets

CONSTANTS Tenants,       \* communities, one per slug
          Configured,    \* those of the deployment's manifest
          Homes,         \* territories a tenant may be given
          Features,      \* product features; "community" is one of them
          PlanFeatures,  \* the features of the plans tenants start with
          Rows,          \* records of tenants the data plane may hold
          AuditCap,      \* AUDIT_CAP: entries of the trail that are kept
          MaxBackups,    \* bound: backups taken
          MaxRequests,   \* bound: requests to the platform between two crashes
          MaxCrashes,    \* bound: crashes
          NoTenant

Statuses == {"absent", "provisioned", "active", "suspended", "archived"}

\* A record of a tenant; a media asset is unsound when its storage key lies
\* outside the folder of its tenant.
Row == [id : Nat, tenant : Tenants, sound : BOOLEAN]

Entry == [tenant : Tenants, says : Statuses \cup {"other"}]

Backup == [tenant : Tenants, homes : SUBSET Homes, rows : SUBSET Rows]

ASSUME PlatformConstants ==
    /\ Configured \subseteq Tenants /\ "home" \in Homes
    /\ "community" \in Features
    /\ PlanFeatures \in [{"community", "premium"} -> SUBSET Features]
    /\ "community" \in PlanFeatures["community"] \cap PlanFeatures["premium"]
    /\ Rows \subseteq Row
    /\ AuditCap \in Nat \ {0} /\ MaxBackups \in Nat
    /\ MaxRequests \in Nat /\ MaxCrashes \in Nat
    /\ NoTenant \notin Tenants

VARIABLES cp,        \* TenantFactorySnapshot
          audit,     \* the trail, newest first
          rows,      \* memberships, domain records and media of the data plane
          backups,   \* newest first, with their payloads
          admitted,  \* the tenant for which the last step let a member write
          decision,  \* history: what operators last decided since the process
                     \* started
          spent, crashes

vars == <<cp, audit, rows, backups, admitted, decision, spent, crashes>>

ControlPlane ==
    [status       : [Tenants -> Statuses],
     homes        : [Tenants -> SUBSET Homes],
     features     : [Tenants -> SUBSET Features],
     subscription : [Tenants -> {"none", "trial", "active", "cancelled"}]]

NoControlPlane ==
    [status       |-> [t \in Tenants |-> "absent"],
     homes        |-> [t \in Tenants |-> {}],
     features     |-> [t \in Tenants |-> {}],
     subscription |-> [t \in Tenants |-> "none"]]

Init == /\ cp = NoControlPlane
        /\ audit = <<>> /\ rows = {} /\ backups = <<>>
        /\ admitted = NoTenant
        /\ decision = [t \in Tenants |-> "none"]
        /\ spent = 0 /\ crashes = 0

-----------------------------------------------------------------------------
(* What every handler starts and ends with.                                *)

Adopted(t) == t \in Configured /\ cp.status[t] = "absent"

\* The configured tenants that are unknown are adopted, active and premium.
Booted ==
    LET Set(f, v) == [t \in Tenants |-> IF Adopted(t) THEN v ELSE f[t]]
    IN [cp EXCEPT !.status = Set(@, "active"), !.homes = Set(@, {"home"}),
                  !.features = Set(@, PlanFeatures["premium"]),
                  !.subscription = Set(@, "active")]

Known(t) == Booted.status[t] # "absent"

LogEverything(entries) == audit' = entries \o audit    \* mutant

Log(entries) ==
    LET all == entries \o audit
    IN audit' = SubSeq(all, 1, IF Len(all) > AuditCap THEN AuditCap ELSE Len(all))

Says(t, what) == [tenant |-> t, says |-> what]
Mentions(t) == Says(t, "other")

Asked == /\ spent < MaxRequests /\ spent' = spent + 1
         /\ admitted' = NoTenant
         /\ UNCHANGED crashes

DataKept == UNCHANGED <<rows, backups>>

\* A request that only reads, or is answered with an error before it changes
\* anything, still boots the plane.
LookUp == /\ Asked /\ cp # Booted /\ cp' = Booted
          /\ UNCHANGED <<audit, decision>> /\ DataKept

\* Somebody of tenant t who is no operator: the refusal is recorded.
Refuse(t) == /\ Asked /\ cp' = Booted /\ Log(<<Mentions(t)>>)
             /\ UNCHANGED decision /\ DataKept

-----------------------------------------------------------------------------
(* Tenants.                                                                *)

Provision(t, homes) ==
    /\ Asked /\ DataKept
    /\ ~Known(t)                                     \* slug_taken
    /\ cp' = [Booted EXCEPT !.status[t] = "provisioned", !.homes[t] = homes,
                            !.features[t] = PlanFeatures["community"],
                            !.subscription[t] = "trial"]
    /\ Log(<<Says(t, "provisioned")>>)
    /\ decision' = [decision EXCEPT ![t] = "provisioned"]

AddTerritory(t, home) ==
    /\ Asked /\ DataKept
    /\ Known(t)
    /\ cp' = [Booted EXCEPT !.homes[t] = @ \cup {home}]
    /\ Log(<<Mentions(t)>>)
    /\ UNCHANGED decision

Patched(features, on, off) == (features \ off) \cup on

Verbs == {"activate", "suspend", "restore", "archive"}

Target(verb) == CASE verb \in {"activate", "restore"} -> "active"
                  [] verb = "suspend"                 -> "suspended"
                  [] verb = "archive"                 -> "archived"

Transitions == [provisioned |-> {"active"}, active |-> {"suspended"},
                suspended |-> {"active", "archived"}, archived |-> {}]

CanTransition(from, verb) ==
    \/ Target(verb) \in Transitions[from]
    \/ from = "archived" /\ verb = "restore"

Subscribed(verb, before) ==
    CASE verb \in {"activate", "restore"} -> "active"
      [] verb = "archive"                 -> "cancelled"
      [] OTHER                            -> before

\* POST /api/platform/lifecycle
Lifecycle(t, verb) ==
    /\ Asked /\ DataKept
    /\ Known(t) /\ CanTransition(Booted.status[t], verb)
    /\ cp' = [Booted EXCEPT !.status[t] = Target(verb),
                            !.subscription[t] = Subscribed(verb, @)]
    /\ Log(IF verb = "suspend" THEN <<Says(t, "suspended"), Mentions(t)>>
                               ELSE <<Says(t, Target(verb))>>)
    /\ decision' = [decision EXCEPT ![t] = Target(verb)]

SetStatusUnnamed(t, status) ==                          \* mutant
    /\ Asked /\ DataKept
    /\ Known(t)
    /\ cp' = [Booted EXCEPT !.status[t] = status]
    /\ Log(<<Mentions(t)>>)
    /\ decision' = [decision EXCEPT ![t] = status]

\* POST /api/platform/provisioning: any status may follow any other.
SetStatus(t, status) ==
    /\ Asked /\ DataKept
    /\ Known(t)
    /\ cp' = [Booted EXCEPT !.status[t] = status]
    /\ Log(<<Says(t, status)>>)
    /\ decision' = [decision EXCEPT ![t] = status]

WithFeatures(t, on, off) ==
    [Booted EXCEPT !.features[t] = Patched(@, on, off) \cup {"community"}]

SetFeatures(t, on, off) ==
    /\ Asked /\ DataKept
    /\ Known(t)
    /\ cp' = WithFeatures(t, on, off)
    /\ Log(<<Mentions(t)>>)
    /\ UNCHANGED decision

\* Alerts about a tenant are raised and resolved, its health is looked at: what
\* that adds is read by nobody here.
Annotate(t) ==
    /\ Asked /\ DataKept
    /\ cp' = Booted /\ Log(<<Mentions(t)>>)
    /\ UNCHANGED decision

-----------------------------------------------------------------------------
(* Data operations.                                                        *)

RowsOf(t) == {r \in rows : r.tenant = t}

Isolated(payload) == \A r \in payload.rows : r.sound /\ r.tenant = payload.tenant

\* seedTenantDataOpsForTests: the only writer of these rows.
Seed(some) == /\ Asked /\ rows' = some
              /\ UNCHANGED <<cp, audit, backups, decision>>

Slice(t) == [tenant |-> t, homes |-> Booted.homes[t], rows |-> RowsOf(t)]

Export(t) ==
    /\ Asked /\ DataKept
    /\ Known(t)
    /\ cp' = Booted
    /\ Log(IF Isolated(Slice(t)) THEN <<Mentions(t), Mentions(t), Mentions(t)>>
                                 ELSE <<Mentions(t), Mentions(t)>>)
    /\ UNCHANGED decision

CreateBackup(t) ==
    /\ Asked /\ Len(backups) < MaxBackups
    /\ Known(t) /\ Isolated(Slice(t))
    /\ cp' = Booted
    /\ backups' = <<Slice(t)>> \o backups
    /\ Log(<<Mentions(t)>>)
    /\ UNCHANGED <<rows, decision>>

BackupsOf(t) == {i \in DOMAIN backups : backups[i].tenant = t}

Newest(t) == CHOOSE i \in BackupsOf(t) : \A j \in BackupsOf(t) : i <= j

\* The newest backup of the tenant; an active tenant must be confirmed.
RestoreData(t, confirmed) ==
    /\ Asked
    /\ Known(t)
    /\ cp' = Booted
    /\ Log(<<Mentions(t), Mentions(t)>>)
    /\ rows' = IF BackupsOf(t) # {} /\ (confirmed \/ Booted.status[t] # "active")
               THEN (rows \ RowsOf(t)) \cup backups[Newest(t)].rows
               ELSE rows
    /\ UNCHANGED <<backups, decision>>

-----------------------------------------------------------------------------
(* Members, and the process.                                               *)

BlocksSuspended(t) == cp.status[t] = "suspended"        \* mutant

\* A tenant the process does not know is not blocked.
Blocks(t) == cp.status[t] \in {"suspended", "archived"}

\* A write of a member behind requireMutationActor; redeeming a community code,
\* accepting an invitation and registering do not ask.
Write(t) == /\ ~Blocks(t)
            /\ admitted' = t
            /\ UNCHANGED <<cp, audit, rows, backups, decision, spent, crashes>>

Crash == /\ crashes < MaxCrashes /\ crashes' = crashes + 1
         /\ cp' = NoControlPlane
         /\ audit' = <<>> /\ rows' = {} /\ backups' = <<>>
         /\ admitted' = NoTenant /\ spent' = 0
         /\ decision' = [t \in Tenants |-> "none"]

Operate(t) ==
    \/ Refuse(t) \/ Annotate(t) \/ Export(t) \/ CreateBackup(t)
    \/ \E homes \in SUBSET Homes : Provision(t, homes)
    \/ \E home \in Homes : AddTerritory(t, home)
    \/ \E verb \in Verbs : Lifecycle(t, verb)
    \/ \E status \in {"active", "suspended", "archived"} : SetStatus(t, status)
    \/ \E on \in SUBSET Features : \E off \in SUBSET (Features \ on) : SetFeatures(t, on, off)
    \/ \E confirmed \in BOOLEAN : RestoreData(t, confirmed)

Next == \/ LookUp \/ Crash
        \/ \E some \in SUBSET Rows : Seed(some)
        \/ \E t \in Tenants : Operate(t) \/ Write(t)

Spec == Init /\ [][Next]_vars

-----------------------------------------------------------------------------
(* Types.  The control plane, the trail and the data plane hold what their *)
(* types declare, and the trail never more than AUDIT_CAP entries.         *)
TypeOK == /\ cp \in ControlPlane
          /\ audit \in Seq(Entry) /\ Len(audit) <= AuditCap
          /\ rows \subseteq Rows
          /\ backups \in Seq(Backup)
          /\ admitted \in Tenants \cup {NoTenant}
          /\ decision \in [Tenants -> Statuses \cup {"none"}]
          /\ spent \in 0..MaxRequests /\ crashes \in 0..MaxCrashes

\* The newest entry of the trail that names a status of a tenant names the
\* status it has: whichever of the two routes, restart or eviction came between.
TrailAgreesWithStatus ==
    \A i \in DOMAIN audit :
        /\ audit[i].says # "other"
        /\ \A j \in 1..(i - 1) : audit[j] = Mentions(audit[i].tenant)
                                   \/ audit[j].tenant # audit[i].tenant
        => cp.status[audit[i].tenant] = audit[i].says

\* While the process lives, a tenant that was suspended or archived by either
\* route takes no write of a member that passes requireMutationActor until an
\* operator decides otherwise; neither adoption, features, alerts nor a restored
\* backup open it again.
SuspendedTenantsAreQuiet ==
    admitted # NoTenant => decision[admitted] \notin {"suspended", "archived"}
=============================================================================

-------------------------- MODULE PlatformResolver --------------------------
(***************************************************************************)
(* The system resolver with the macOS and Windows backends (sysresolver    *)
(* macos.rs, windows.rs): one command per network service, whose failure   *)
(* is only logged; restore sets every service to DHCP's servers.  Services *)
(* come and go; the marker and its order are SysResolver's, without torn   *)
(* files.                                                                  *)
(***************************************************************************)
EXTENDS FiniteSets

CONSTANT NetServices  \* network services, or interfaces

VARIABLES
    prDns,      \* per service: whose servers it uses: "dhcp", "static" (the operator's), "managed"
    prPresent,  \* the services that are listed now
    prMarker,   \* dns-applied.json exists
    prAt,       \* "down", "ready", "commit", "applied", "recover", "stop"
    prTodo,     \* services the commit or the undo has still to visit
    prMissed,   \* history: services an undo has passed by
    prOrigin    \* prDns before squawk ever ran
platformVars == <<prDns, prPresent, prMarker, prAt, prTodo, prMissed, prOrigin>>

PlatformInit ==
    /\ prOrigin \in [NetServices -> {"dhcp", "static"}] /\ prDns = prOrigin
    /\ prPresent \in SUBSET NetServices
    /\ prMarker = FALSE /\ prAt = "down" /\ prTodo = {} /\ prMissed = {}

\* network_services, interfaces; on macOS those of PPP are passed over.
Listed == prPresent

\* init: what a crash left is undone first.
PlatformLaunch ==
    /\ prAt = "down"
    /\ IF prMarker THEN prAt' = "recover" /\ prTodo' = Listed ELSE prAt' = "ready" /\ UNCHANGED prTodo
    /\ UNCHANGED <<prDns, prPresent, prMarker, prMissed, prOrigin>>

MarkedFirst == TRUE

\* start: snapshot never fails here; the marker, then the services.
PlatformApply ==
    /\ prAt = "ready" /\ prMarker' = MarkedFirst
    /\ prAt' = "commit" /\ prTodo' = Listed
    /\ UNCHANGED <<prDns, prPresent, prMissed, prOrigin>>

PlatformStop ==
    /\ prAt = "applied" /\ prAt' = "stop" /\ prTodo' = Listed
    /\ UNCHANGED <<prDns, prPresent, prMarker, prMissed, prOrigin>>

Undoing == prAt \in {"recover", "stop"}

\* One service: the command, whose failure and exit status are not looked at.
SetService(s, ok) ==
    /\ prAt = "commit" /\ s \in prTodo
    /\ prDns' = IF ok THEN [prDns EXCEPT ![s] = "managed"] ELSE prDns
    /\ prTodo' = prTodo \ {s}
    /\ UNCHANGED <<prPresent, prMarker, prAt, prMissed, prOrigin>>

ResetService(s, ok) ==
    /\ Undoing /\ s \in prTodo
    /\ prDns' = IF ok THEN [prDns EXCEPT ![s] = "dhcp"] ELSE prDns
    /\ prMissed' = IF ok THEN prMissed \ {s} ELSE prMissed \cup {s}
    /\ prTodo' = prTodo \ {s}
    /\ UNCHANGED <<prPresent, prMarker, prAt, prOrigin>>

\* All were visited: applied, unless there was none at all.
CommitEnds ==
    /\ prAt = "commit" /\ prTodo = {}
    /\ IF prPresent # {} THEN prAt' = "applied" /\ prMarker' = TRUE ELSE prAt' = "ready" /\ prMarker' = FALSE
    /\ UNCHANGED <<prDns, prPresent, prTodo, prMissed, prOrigin>>

AfterUndo == IF prAt = "recover" THEN "ready" ELSE "down"

\* The undo is through, and the marker goes, whatever the commands did.
UndoEnds ==
    /\ Undoing /\ prTodo = {}
    /\ prAt' = AfterUndo /\ prMarker' = FALSE
    /\ prMissed' = prMissed \cup (NetServices \ prPresent)
    /\ UNCHANGED <<prDns, prPresent, prTodo, prOrigin>>

\* The list cannot be had: the commit fails and unmarks; a failed undo keeps the
\* marker and is only logged.
CommitListFails ==
    /\ prAt = "commit" /\ prTodo = Listed
    /\ prAt' = "ready" /\ prTodo' = {} /\ prMarker' = FALSE
    /\ UNCHANGED <<prDns, prPresent, prMissed, prOrigin>>

UndoListFails ==
    /\ Undoing /\ prTodo = Listed
    /\ prAt' = AfterUndo /\ prTodo' = {} /\ prMissed' = NetServices
    /\ UNCHANGED <<prDns, prPresent, prMarker, prOrigin>>

PlatformCrash ==
    /\ prAt # "down" /\ prAt' = "down" /\ prTodo' = {}
    /\ UNCHANGED <<prDns, prPresent, prMarker, prMissed, prOrigin>>

\* A service appears or goes.
ServiceToggles(s) ==
    /\ prAt \in {"down", "ready", "applied"}
    /\ prPresent' = (prPresent \ {s}) \cup ({s} \ prPresent)
    /\ UNCHANGED <<prDns, prMarker, prAt, prTodo, prMissed, prOrigin>>

PlatformNext ==
    \/ PlatformLaunch \/ PlatformApply \/ PlatformStop \/ CommitEnds \/ UndoEnds
    \/ CommitListFails \/ UndoListFails \/ PlatformCrash
    \/ \E s \in NetServices : ServiceToggles(s) \/ \E ok \in BOOLEAN : SetService(s, ok) \/ ResetService(s, ok)

----------------------------------------------------------------------------
\* Types; the services that are still to be visited are listed ones.
PlatformTypeOK ==
    /\ prDns \in [NetServices -> {"dhcp", "static", "managed"}]
    /\ prTodo \subseteq prPresent /\ (prTodo # {} => prAt \in {"commit", "recover", "stop"})

\* A service that uses our server without a marker, and one of DHCP's that does not
\* get them back, is one that an undo passed by: it was away, or a command failed.
\* No crash does it.
ManagedIsMarkedOrMissed ==
    ~prMarker => \A s \in NetServices :
        prDns[s] = "managed" \/ (prOrigin[s] = "dhcp" /\ prDns[s] # "dhcp") => s \in prMissed
=============================================================================

--------------------------- MODULE TunnelRegistry ---------------------------
(***************************************************************************)
(* Tunnel ids: the pods of a cluster, the watcher that keeps the map of    *)
(* the tunnel-server (tunnel-server/src/watcher.rs, state.rs, api.rs), the *)
(* wstunnel server that asks it (tunnel/server/tunnel_resolver.rs) and the *)
(* pool of rate limiters, one per tunnel id (tunnel/rate_limiter.rs, wrap).*)
(*                                                                         *)
(* External: Kubernetes and the kube crate.  A change of a pod is an       *)
(* applied object in the stream, in the order of the changes; the deletion *)
(* of the object is not (applied_objects drops it).  A watch that breaks   *)
(* starts over with a list of the pods there are.                          *)
(***************************************************************************)
EXTENDS Naturals, Sequences, SequencesExt

CONSTANTS
  Pods,        \* pods; a pod's address is the pod itself
  Ids,         \* tunnel ids
  IdOf,        \* the tunnel id annotation of each pod
  Annotations, \* the rate limit annotations a pod may have:
               \* [upload, download, legacy], numbers or Absent
  Absent,      \* an annotation, entry or limit that is not there
  Conns,       \* connections of the wstunnel server
  Worlds,      \* the pods and connections there will be, as <<pods, conns>>
  MaxChanges,  \* bound: changes of annotations
  MaxRelists   \* bound: times the watch breaks

ASSUME RegistryAssumption ==
  /\ IdOf \in [Pods -> Ids]
  /\ Worlds \subseteq (SUBSET Pods) \X (SUBSET Conns)
  /\ Absent \notin Pods \cup Nat
  /\ MaxChanges \in Nat /\ MaxRelists \in Nat

VARIABLES
  pods,      \* [Pods -> the pod's object]
  stream,    \* applied objects the watcher has not handled
  map,       \* the map of AppState
  conns,     \* [Conns -> control point, endpoint and limiter]
  pool,      \* the map of RateLimiterPool
  told,      \* the phase of each pod the watcher was last told of
  latest,    \* the pod of the last object handled for each id
  changes, relists

vars == <<pods, stream, map, told, latest, conns, pool, changes, relists>>
watcherVars == <<map, told, latest>>
podVars == <<pods, stream, changes, relists>>

NoAnnotations == [upload |-> Absent, download |-> Absent, legacy |-> Absent]

Init ==
  /\ \E w \in Worlds :
       /\ pods = [p \in Pods |-> [phase |-> IF p \in w[1] THEN "absent" ELSE "gone",
                                  ann |-> NoAnnotations]]
       /\ conns = [c \in Conns |-> [at |-> IF c \in w[2] THEN "idle" ELSE "rejected",
                                    id |-> Absent, endpoint |-> Absent,
                                    limiters |-> Absent]]
  /\ stream = << >>
  /\ map = [i \in Ids |-> Absent]
  /\ told = [p \in Pods |-> "absent"]
  /\ latest = [i \in Ids |-> Absent]
  /\ pool = [i \in Ids |-> Absent]
  /\ changes = 0 /\ relists = 0

-----------------------------------------------------------------------------
(***************************************************************************)
(* Pods                                                                    *)
(***************************************************************************)

Object(p) == [pod |-> p, phase |-> pods[p].phase, ann |-> pods[p].ann]

\* A change of a pod that the watch reports.
Apply(p, phase, ann) ==
  /\ pods' = [pods EXCEPT ![p] = [phase |-> phase, ann |-> ann]]
  /\ stream' = Append(stream, Object(p)')
  /\ UNCHANGED <<watcherVars, conns, pool, relists>>

CreatePod(p) ==
  /\ pods[p].phase = "absent"
  /\ \E ann \in Annotations : Apply(p, "pending", ann)
  /\ UNCHANGED changes

StartPod(p) ==
  /\ pods[p].phase = "pending"
  /\ Apply(p, "running", pods[p].ann)
  /\ UNCHANGED changes

AnnotatePod(p) ==
  /\ pods[p].phase = "running" /\ changes < MaxChanges
  /\ \E ann \in Annotations \ {pods[p].ann} : Apply(p, "running", ann)
  /\ changes' = changes + 1

TerminatePod(p) ==
  /\ pods[p].phase \in {"pending", "running"}
  /\ Apply(p, "deleting", pods[p].ann)
  /\ UNCHANGED changes

\* After a notice (deleting), or without one.
DeletePod(p) ==
  /\ pods[p].phase \in {"pending", "running", "deleting"}
  /\ pods' = [pods EXCEPT ![p].phase = "gone"]
  /\ UNCHANGED <<stream, watcherVars, conns, pool, changes, relists>>

\* The watch breaks; the objects that are there are applied again.
Relist ==
  /\ relists < MaxRelists
  /\ relists' = relists + 1
  /\ \E order \in SetToSeqs({p \in Pods : pods[p].phase \notin {"absent", "gone"}}) :
       stream' = [i \in DOMAIN order |-> Object(order[i])]
  /\ UNCHANGED <<pods, watcherVars, conns, pool, changes>>

-----------------------------------------------------------------------------
(***************************************************************************)
(* The watcher                                                             *)
(***************************************************************************)

MAX_RATE_LIMIT_M == 10

parse_rate_limit(v) ==
  IF v # Absent /\ v > MAX_RATE_LIMIT_M THEN MAX_RATE_LIMIT_M ELSE v

Or(v, other) == IF v = Absent THEN other ELSE v

TunnelEntry(o) ==
  LET legacy == parse_rate_limit(o.ann.legacy)
  IN  [host |-> o.pod,
       upload |-> Or(parse_rate_limit(o.ann.upload), legacy),
       download |-> Or(parse_rate_limit(o.ann.download), legacy)]

Told(o) ==
  /\ told' = [told EXCEPT ![o.pod] = o.phase]
  /\ latest' = [latest EXCEPT ![IdOf[o.pod]] = o.pod]

\* Mutant of handle_pod_event: a tunnel that is in the map is left as it is.
handle_pod_event_once ==
  /\ stream # << >>
  /\ stream' = Tail(stream) /\ Told(Head(stream))
  /\ LET o == Head(stream) IN
       map' = [map EXCEPT ![IdOf[o.pod]] =
                 IF o.phase # "running" THEN Absent
                 ELSE IF @ # Absent THEN @ ELSE TunnelEntry(o)]
  /\ UNCHANGED <<pods, conns, pool, changes, relists>>

\* The next applied object: a pod that runs is entered under its tunnel id,
\* one that does not, or is being deleted, clears the tunnel id.
handle_pod_event ==
  /\ stream # << >>
  /\ stream' = Tail(stream) /\ Told(Head(stream))
  /\ LET o == Head(stream) IN
       map' = [map EXCEPT ![IdOf[o.pod]] =
                 IF o.phase = "running" THEN TunnelEntry(o) ELSE Absent]
  /\ UNCHANGED <<pods, conns, pool, changes, relists>>

-----------------------------------------------------------------------------
(***************************************************************************)
(* The wstunnel server                                                     *)
(***************************************************************************)

\* resolve_tunnel_over_http caps what get_tunnel answers once more.
TunnelEndpoint(entry) ==
  [entry EXCEPT !.upload = parse_rate_limit(@), !.download = parse_rate_limit(@)]

get_tunnel(i) == map[i]

\* The request to the resolver: an unknown id is an error.
Resolve(c) ==
  /\ conns[c].at = "idle"
  /\ \E i \in Ids :
       conns' = [conns EXCEPT ![c] =
         IF get_tunnel(i) = Absent THEN [@ EXCEPT !.at = "rejected"]
         ELSE [@ EXCEPT !.at = "resolved", !.id = i, !.endpoint = TunnelEndpoint(get_tunnel(i))]]
  /\ UNCHANGED <<podVars, watcherVars, pool>>

\* bytes_per_sec as u32 keeps 4096 MiB apart; a limiter of 0 MiB lets one
\* byte per second through (max(1)).
build_limiter(m, owner) ==
  IF m = Absent THEN Absent ELSE [m |-> m, mib |-> m % 4096, owner |-> owner]

NewLimiters(c) ==
  [write |-> build_limiter(conns[c].endpoint.upload, c),
   read |-> build_limiter(conns[c].endpoint.download, c)]

NeedsLimiter(c) ==
  conns[c].endpoint.upload # Absent \/ conns[c].endpoint.download # Absent

\* Mutant of Wrap: limiters are built again when the limits have changed.
WrapRebuilt(c) ==
  /\ conns[c].at = "resolved" /\ NeedsLimiter(c)
  /\ LET i == conns[c].id IN
       /\ pool' = [pool EXCEPT ![i] = NewLimiters(c)]
       /\ conns' = [conns EXCEPT ![c].at = "open", ![c].limiters = pool'[i]]
  /\ UNCHANGED <<podVars, watcherVars>>

\* RateLimiterPool::wrap: the limiters of the tunnel id are built for its
\* first connection and kept.
Wrap(c) ==
  /\ conns[c].at = "resolved" /\ NeedsLimiter(c)
  /\ LET i == conns[c].id IN
       /\ pool' = [pool EXCEPT ![i] = Or(@, NewLimiters(c))]
       /\ conns' = [conns EXCEPT ![c].at = "open", ![c].limiters = pool'[i]]
  /\ UNCHANGED <<podVars, watcherVars>>

OpenUnlimited(c) ==
  /\ conns[c].at = "resolved" /\ ~NeedsLimiter(c)
  /\ conns' = [conns EXCEPT ![c].at = "open"]
  /\ UNCHANGED <<podVars, watcherVars, pool>>

-----------------------------------------------------------------------------
PodStep(p) ==
  CreatePod(p) \/ StartPod(p) \/ AnnotatePod(p) \/ TerminatePod(p) \/ DeletePod(p)

Next ==
  \/ \E p \in Pods : PodStep(p)
  \/ Relist
  \/ handle_pod_event
  \/ \E c \in Conns : Resolve(c) \/ Wrap(c) \/ OpenUnlimited(c)

\* Only the watcher's task is sure to run on.
Spec == Init /\ [][Next]_vars /\ WF_vars(handle_pod_event)

-----------------------------------------------------------------------------
(***************************************************************************)
(* Properties                                                              *)
(***************************************************************************)

LimiterSet == {Absent} \cup [m : Nat, mib : Nat, owner : Conns]

\* Every variable keeps its type.
TypeOK ==
  /\ \A i \in Ids : map[i] # Absent =>
       /\ map[i].host \in Pods
       /\ {map[i].upload, map[i].download} \subseteq (0 .. MAX_RATE_LIMIT_M) \cup {Absent}
  /\ \A i \in Ids : pool[i] # Absent =>
       pool[i].read \in LimiterSet /\ pool[i].write \in LimiterSet
  /\ \A c \in Conns : conns[c].at \in {"idle", "rejected", "resolved", "open"}

Alive(p) == pods[p].phase \notin {"absent", "gone"}

\* README.md:502, the resolver "watches pods with wstunnel.io/tunnel-id
\* annotation and exposes their pod IP".  In the end a pod that runs is exposed
\* with its latest annotations, unless the last thing the watcher was told for
\* its id was about another pod (the end of the old pod of a rolling update
\* withdraws the new one); and an id exposes no pod that is gone, unless the
\* watcher was never told that the pod ended (deleted without notice, or the
\* notice was lost while the watch was broken).
RegistryFollowsPods ==
  <>[](/\ \A p \in Pods : pods[p].phase = "running" =>
            map[IdOf[p]] = TunnelEntry(Object(p)) \/ latest[IdOf[p]] # p
       /\ \A i \in Ids : map[i] # Absent =>
            Alive(map[i].host) \/ told[map[i].host] = "running")

\* The limits the resolver returned for a connection, and those it works under.
Returned(c) == [write |-> conns[c].endpoint.upload, read |-> conns[c].endpoint.download]
Applied(c) ==
  LET limiters == conns[c].limiters
  IN  [d \in {"write", "read"} |->
         IF limiters = Absent \/ limiters[d] = Absent THEN Absent ELSE limiters[d].mib]

\* The limiters of c were built for a connection that was given other limits.
KeptLimits(c) ==
  /\ conns[c].limiters # Absent
  /\ \E o \in Conns :
       /\ conns[o].id = conns[c].id /\ conns[o].limiters = conns[c].limiters
       /\ Returned(o) # Returned(c) /\ Applied(o) = Returned(o)

\* README.md:494, the limits the resolver returns are applied, "If a field is
\* absent, that direction is forwarded without limit", and README.md:519, "Values
\* are u16 and capped at 10 MiB/s": an open connection has in each direction as
\* many MiB per second as the resolver returned for it, at most 10, whatever
\* numbers the annotations hold and whatever the conversion to bytes does; or
\* none is applied where none was returned.  The exception is KeptLimits: the
\* pool never replaces the limiters of an id (rate_limiter.rs:67).
\* README.md:496, "all connections belonging to the same tunnel-id share a single
\* bandwidth quota": two connections of an id with the same limits have the same
\* limiters, whoever wrapped first and whatever came in between.
QuotaExact ==
  /\ TypeOK
  /\ \A c \in Conns : conns[c].at = "open" =>
       \/ KeptLimits(c)
       \/ \A d \in {"write", "read"} :
            /\ Applied(c)[d] = Returned(c)[d]
            /\ Applied(c)[d] # Absent => Applied(c)[d] <= MAX_RATE_LIMIT_M
  /\ \A c, d \in Conns :
       (/\ conns[c].at = "open" /\ conns[d].at = "open"
        /\ conns[c].id = conns[d].id /\ Returned(c) = Returned(d))
         => conns[c].limiters = conns[d].limiters
=============================================================================

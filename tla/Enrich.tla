-------------------------------- MODULE Enrich --------------------------------
(***************************************************************************)
(* From one memory image to linked events: the collectors                  *)
(* (internal/collect) put what the engine enumerates into raw records, the *)
(* CAR maps (internal/normalize) turn them into events, BuildStore         *)
(* (internal/pipeline) loads them in the order of the file names, and      *)
(* Enrich (internal/enrich) merges, links and fills them in place, one     *)
(* event after the other.                                                  *)
(*                                                                         *)
(* A world is what really happened on the machine: processes that reuse    *)
(* PIDs over time, and which of them the engine still sees.  Collectors    *)
(* read only what is seen; the properties compare with what happened.      *)
(* Fields that are treated alike are one field: uid stands for sid and     *)
(* uid, path for exe, image_path and command_line, host for hostname and   *)
(* fqdn.                                                                   *)
(***************************************************************************)
EXTENDS Naturals, Sequences, FiniteSets, SequencesExt

CONSTANTS
    Procs,      \* processes of the machine, with the object address of each
    PIDs, Users, Luids, Hosts,
    Sids, WellKnown,  \* security identifiers; those of the well-known accounts
    Canonical,  \* the canonical name of each well-known account
    Conns,      \* connections
    Now,        \* bound: times are 1 .. Now, 0 stands for unknown
    None,       \* blank
    Worlds,     \* the worlds analysed, see World
    PluginSets  \* the sets of collectors that were run

Times == 0 .. Now
Blankable(S) == S \cup {None}

(* A row of registry says what it is good for.                                *)
RegRow == [says : {"computer", "active", "profile", "sidhive"},
           sid : Blankable(Sids), data : Users \cup Hosts]

(* An attribute of MFT record n, with the length of the name it gives.        *)
MftRow == [n : 1 .. 2, attr : {"SI", "FN", "DATA"}, name : 0 .. 2, created : Times]

World ==
    [pid : [Procs -> PIDs],
     parent : [Procs -> Blankable(Procs)],
     made : [Procs -> 1 .. Now],     \* creation
     ended : [Procs -> Times],         \* exit, 0 while it runs
     order : Seq(Procs),               \* the engine's enumeration
     listed : [PIDs -> Blankable(Procs)],  \* whose lists the vmm library gives for a PID
     dated : SUBSET Procs,             \* the creation time was recovered
     user : [Procs -> Blankable(Users)],
     sid : [Procs -> Blankable(Sids)],
     luid : [Procs -> Blankable(Luids)],
     by : [Conns -> Procs],            \* who opened a connection
     opened : [Conns -> 1 .. Now],   \* when, and whether that is recorded
     timed : SUBSET Conns,
     listens : SUBSET Conns,           \* bound sockets
     service : Procs,                  \* hosts a service
     hived : BOOLEAN,                  \* key handles name a hive
     regs : Seq(RegRow), mft : Seq(MftRow)]

(* Host names come from the computer and active names, users from profiles.   *)
WellFormed(row) ==
    /\ row.says \in {"computer", "active"} => row.data \in Hosts
    /\ row.says = "profile" => row.data \in Users

Runs(w, p, t) == w.made[p] <= t /\ (w.ended[p] = 0 \/ t <= w.ended[p])

(* Two processes share a PID only one after the other; a parent and the owner *)
(* of a connection run at that moment.  Lists asked for by PID are those of a *)
(* process that is enumerated with that PID, or cannot be had.                *)
Coherent(w) ==
    /\ \A p, q \in Procs : p # q /\ w.pid[p] = w.pid[q] =>
         ~Runs(w, p, w.made[q]) /\ w.made[p] # w.made[q]
    /\ \A p \in Procs : w.parent[p] # None => Runs(w, w.parent[p], w.made[p]) /\ w.parent[p] # p
    /\ \A p \in Procs : w.ended[p] # 0 => w.made[p] <= w.ended[p]
    /\ \A c \in Conns : Runs(w, w.by[c], w.opened[c])
    /\ \A i, j \in 1 .. Len(w.order) : w.order[i] = w.order[j] => i = j
    /\ \A n \in PIDs : w.listed[n] # None => w.listed[n] \in ToSet(w.order) /\ w.pid[w.listed[n]] = n
    /\ \A i \in 1 .. Len(w.regs) : WellFormed(w.regs[i])

(* The collectors modelled, in the order BuildStore loads their files.        *)
Plugins == <<"access", "files", "keys", "modules", "network", "processes", "registry", "sessions",
             "terminated", "threads", "unloaded", "mftscan", "netstat", "svcscan">>

ASSUME EnrichAssumption ==
    /\ \A w \in Worlds : w \in World /\ Coherent(w)
    /\ IsFiniteSet(Conns) /\ Conns \cap Procs = {}
    /\ None \notin Procs /\ None \notin PIDs /\ None \notin Users /\ None \notin Sids
    /\ None \notin {"definitive", "heuristic"} \cup {"proc", "login"} \X (Procs \cup Luids)
                     \cup {"mft"} \X (1 .. 2)
    /\ PluginSets \subseteq SUBSET ToSet(Plugins)
    /\ WellKnown \subseteq Sids /\ Canonical \in [WellKnown -> Users]
    /\ Now \in Nat

VARIABLES
    world, plugins,
    pc,        \* "load", "mft", "sessions", "dedupe", "link" or "done"
    next,      \* the plugin to load, or the event to link
    events,
    userByPID, \* what the session rows know
    loaded     \* history: the events before enrichment

vars == <<world, plugins, pc, next, events, userByPID, loaded>>

-----------------------------------------------------------------------------
(* Sequences. *)

(* The elements of s at the positions I, and those that satisfy P, in order.   *)
Pick(s, I) ==
    LET picked[n \in 0 .. Len(s)] ==
          IF n = 0 THEN <<>>
          ELSE IF n \in I THEN Append(picked[n - 1], s[n]) ELSE picked[n - 1]
    IN picked[Len(s)]
Only(s, P(_)) == Pick(s, {i \in 1 .. Len(s) : P(s[i])})

(* The first of the positions I with the highest score.                       *)
Best(I, score) ==
    CHOOSE i \in I : \A j \in I : score[j] < score[i] \/ (score[j] = score[i] /\ i <= j)

(* Elements of one key are made one, the best of them at the place of the      *)
(* first.                                                                     *)
Collapse(s, key, score) ==
    LET I == 1 .. Len(s)
        firsts == Pick([i \in I |-> i], {i \in I : \A j \in 1 .. i - 1 : key[j] # key[i]})
    IN [k \in 1 .. Len(firsts) |-> s[Best({i \in I : key[i] = key[firsts[k]]}, score)]]

-----------------------------------------------------------------------------
(* Records and events. *)

Seen == ToSet(world.order)
CreateTime(p) == IF p \in world.dated THEN world.made[p] ELSE 0

(* An event before enrichment.  from is history: what it is about.            *)
Event(obj, act, plugin, guid, from) ==
    [obj |-> obj, act |-> act, plugin |-> plugin, guid |-> guid, from |-> from,
     ts |-> 0, pid |-> None, ppid |-> None, opid |-> None, ooff |-> None, off |-> None,
     target |-> None, user |-> None, uid |-> None, path |-> None, host |-> None,
     owner |-> None, parent |-> None, link |-> None, row |-> None,
     created |-> 0, previous |-> 0]

Guid(p) == <<"proc", p>>

(* A row about from that is collected on the turn of the process p carries    *)
(* its PID and address (OwnerOffset).                                         *)
Spoke(obj, act, plugin, guid, from, p) ==
    [Event(obj, act, plugin, guid, from) EXCEPT !.opid = world.pid[p], !.ooff = p]

PerProcess(Row(_)) == [i \in 1 .. Len(world.order) |-> Row(world.order[i])]

(* Threads, modules and handles are asked for by PID: on the turn of p they   *)
(* are those of the process the library has for the PID of p, which may be     *)
(* another one.  Where it has none, the collector goes on to the next.         *)
Listed(p) == world.listed[world.pid[p]]

PerListed(Row(_)) ==
    LET ps == Only(world.order, LAMBDA p : Listed(p) # None)
    IN [i \in 1 .. Len(ps) |-> Row(ps[i])]

(* Who a process has as parent, by PID, is recorded even when that process is *)
(* gone.                                                                      *)
ParentPID(p) == IF world.parent[p] = None THEN None ELSE world.pid[world.parent[p]]

Process(p) ==
    [Event("process", "create", "processes", Guid(p), p) EXCEPT
        !.ts = CreateTime(p), !.pid = world.pid[p], !.ppid = ParentPID(p), !.off = p,
        !.user = world.user[p], !.uid = world.sid[p], !.path = p]

Terminated(p) ==
    [Process(p) EXCEPT !.act = "terminate", !.plugin = "terminated", !.ts = world.ended[p]]

(* A thread comes with its address and its own creation time.                 *)
Thread(p) ==
    [Spoke("thread", "create", "threads", <<"thread", Listed(p)>>, Listed(p), p) EXCEPT
        !.ts = world.made[Listed(p)]]

(* The same image is mapped at the same base everywhere; when is not known.   *)
Module(p) == Spoke("module", "load", "modules", <<"module", world.pid[p]>>, Listed(p), p)

Unloaded(p) == Spoke("module", "unload", "unloaded", <<"unloaded", world.pid[p]>>, Listed(p), p)

(* All hold the same file object and one key each, and a handle on the process *)
(* that is enumerated first.                                                  *)
File(p) == Spoke("file", "access", "files", <<"file">>, Listed(p), p)

Key(p) ==
    Spoke("registry", "access", "keys", IF world.hived THEN <<"key", p>> ELSE None, Listed(p), p)

Access(p) ==
    [Spoke("process", "access", "access", Guid(p), Listed(p), p) EXCEPT
        !.target = Guid(world.order[1]), !.pid = world.pid[p]]

(* A process without a logon identity gives a row without guid.               *)
Session(p) ==
    [Spoke("user_session", "login", "sessions",
           IF world.luid[p] = None THEN None ELSE <<"login", world.luid[p]>>, p, p) EXCEPT
        !.ts = CreateTime(p), !.user = world.user[p], !.uid = world.sid[p]]

(* netRecords, collectServices: the address of the process last seen with     *)
(* that PID.                                                                  *)
Holder(pid) ==
    LET is == {i \in 1 .. Len(world.order) : world.pid[world.order[i]] = pid}
    IN IF is = {} THEN None ELSE world.order[CHOOSE i \in is : \A j \in is : i >= j]

(* A bound socket is told apart from a flow by its process, too.              *)
Conn(c, plugin) ==
    LET pid == world.pid[world.by[c]]
        e == IF c \in world.listens
               THEN Event("socket", "listen", plugin, <<"socket", c, pid>>, c)
               ELSE Event("flow", "start", plugin, <<"flow", c>>, c)
    IN [e EXCEPT !.ts = IF c \in world.timed THEN world.opened[c] ELSE 0, !.opid = pid,
                 !.ooff = IF plugin = "network" THEN Holder(pid) ELSE None]

PerConn(plugin) == LET cs == SetToSeq(Conns) IN [i \in 1 .. Len(cs) |-> Conn(cs[i], plugin)]

Service ==
    [Event("service", "enumerate", "svcscan", <<"service">>, world.service) EXCEPT
        !.opid = world.pid[world.service], !.ooff = Holder(world.pid[world.service])]

Registry ==
    [i \in 1 .. Len(world.regs) |->
        [Event("registry", "value_edit", "registry", <<"value", i>>, i) EXCEPT !.row = world.regs[i]]]

Mft ==
    [i \in 1 .. Len(world.mft) |->
        LET r == world.mft[i] IN
        [Event("file", "create", "mftscan", None, r.n) EXCEPT
            !.ts = r.created, !.created = r.created, !.row = r]]

Rows(plugin) ==
    CASE plugin = "access"     -> PerListed(Access)
      [] plugin = "files"      -> PerListed(File)
      [] plugin = "keys"       -> PerListed(Key)
      [] plugin = "modules"    -> PerListed(Module)
      [] plugin = "network"    -> PerConn("network")
      [] plugin = "processes"  -> PerProcess(Process)
      [] plugin = "registry"   -> Registry
      [] plugin = "sessions"   -> PerProcess(Session)
      [] plugin = "terminated" -> Only(PerProcess(Terminated), LAMBDA e : e.ts # 0)
      [] plugin = "threads"    -> PerListed(Thread)
      [] plugin = "unloaded"   -> PerListed(Unloaded)
      [] plugin = "mftscan"    -> Mft
      [] plugin = "svcscan"    -> <<Service>>
      [] plugin = "netstat"    -> PerConn("netstat")

Init ==
    /\ world \in Worlds /\ plugins \in PluginSets
    /\ pc = "load" /\ next = 1
    /\ events = <<>> /\ userByPID = [p \in PIDs |-> None] /\ loaded = <<>>

Load ==
    /\ pc = "load" /\ next <= Len(Plugins)
    /\ events' = IF Plugins[next] \in plugins THEN events \o Rows(Plugins[next]) ELSE events
    /\ next' = next + 1
    /\ UNCHANGED <<world, plugins, pc, userByPID, loaded>>

Loaded ==
    /\ pc = "load" /\ next > Len(Plugins)
    /\ loaded' = events /\ pc' = "mft"
    /\ UNCHANGED <<world, plugins, next, events, userByPID>>

-----------------------------------------------------------------------------
(* The passes before linking. *)

(* Mutant of NameLengths: the first name is as good as any.                    *)
NameLengthsEqual(rows) == [i \in 1 .. Len(rows) |-> 0]

NameLengths(rows) == [i \in 1 .. Len(rows) |-> rows[i].row.name]

(* collapseMFT: the attributes of a record are one file, with the longest     *)
(* name and the creation time of its STANDARD_INFORMATION; a different one of *)
(* its FILE_NAME is kept beside it.                                           *)
Merged(rows) ==
    LET si == {i \in 1 .. Len(rows) : rows[i].row.attr = "SI"}
        fn == {i \in 1 .. Len(rows) : rows[i].row.attr = "FN" /\ rows[i].row.name > 0}
        zero == [i \in 1 .. Len(rows) |-> 0]
        named == rows[Best(fn, NameLengths(rows))]
        seed == IF si # {} THEN rows[Best(si, zero)] ELSE IF fn # {} THEN named ELSE rows[1]
        siTime == IF si # {} THEN seed.created ELSE 0
        fnTime == IF fn # {} THEN named.created ELSE 0
        time == IF siTime # 0 THEN siTime ELSE fnTime
    IN [seed EXCEPT !.guid = <<"mft", seed.row.n>>, !.ts = time, !.created = time,
                    !.row.name = IF fn # {} THEN named.row.name ELSE seed.row.name,
                    !.previous = IF siTime # 0 /\ fnTime # 0 /\ siTime # fnTime THEN fnTime ELSE 0]

CollapseMFT ==
    /\ pc = "mft"
    /\ LET rows == Only(events, LAMBDA e : e.plugin = "mftscan")
           Record(e) == Only(rows, LAMBDA f : f.row.n = e.row.n)
           I == 1 .. Len(rows)
           heads == Collapse(rows, [i \in I |-> rows[i].row.n], [i \in I |-> 0])
       IN events' = Only(events, LAMBDA e : e.plugin # "mftscan")
                      \o [k \in 1 .. Len(heads) |-> Merged(Record(heads[k]))]
    /\ pc' = "sessions"
    /\ UNCHANGED <<world, plugins, next, userByPID, loaded>>

(* Mutant of Early: an unknown time comes first.                               *)
EarlyBlank(e) == Now - e.ts

(* tsKey: the earlier the better, an unknown time comes last.                 *)
Early(e) == IF e.ts = 0 THEN 0 ELSE Now + 1 - e.ts

(* collapseSessions: one login per logon identity, the earliest; what the     *)
(* rows say of the user of a PID is remembered, the first wins.               *)
IsSession(e) == e.obj = "user_session"

CollapseSessions ==
    /\ pc = "sessions"
    /\ LET rows == Only(events, IsSession)
           Naming(p) == Only(rows, LAMBDA e : e.opid = p /\ e.user # None)
           logins == Only(rows, LAMBDA e : e.guid # None)
           I == 1 .. Len(logins)
       IN /\ userByPID' = [p \in PIDs |-> IF Naming(p) = <<>> THEN None ELSE Naming(p)[1].user]
          /\ events' = Only(events, LAMBDA e : ~IsSession(e))
                         \o Collapse(logins, [i \in I |-> logins[i].guid], [i \in I |-> Early(logins[i])])
    /\ pc' = "dedupe"
    /\ UNCHANGED <<world, plugins, next, loaded>>

(* Mutant of Identity: the owner is not part of it.                            *)
IdentityAnyOwner(i) ==
    LET e == events[i] IN
    IF e.guid = None THEN <<i>> ELSE <<e.guid, e.obj, e.act, e.target>>

(* dedupe: the identity of an event; without a guid it is its own.            *)
Identity(i) ==
    LET e == events[i] IN
    IF e.guid = None THEN <<i>> ELSE <<e.guid, e.obj, e.act, e.opid, e.target>>

Populated(e) ==
    Cardinality({f \in {"pid", "ppid", "opid", "ooff", "target", "user", "uid", "path"} : e[f] # None})
      + (IF e.ts # 0 THEN 1 ELSE 0)

Dedupe ==
    /\ pc = "dedupe"
    /\ LET I == 1 .. Len(events) IN
       events' = Collapse(events, [i \in I |-> Identity(i)], [i \in I |-> Populated(events[i])])
    /\ pc' = "link" /\ next' = 1
    /\ UNCHANGED <<world, plugins, userByPID, loaded>>

-----------------------------------------------------------------------------
(* Linking. *)

(* What the CAR model gives each object, of the fields that are filled.       *)
Fields(obj) ==
    CASE obj \in {"process", "file", "flow", "service"} -> {"user", "uid", "path", "host"}
      [] obj \in {"thread", "user_session"}  -> {"user", "uid", "host"}
      [] obj = "registry" -> {"user", "path", "host"}
      [] obj = "module"   -> {"path", "host"}
      [] obj = "socket"   -> {"path"}

Creates == {i \in 1 .. Len(events) : events[i].obj = "process" /\ events[i].act = "create"}

(* Mutant of Match: the process created last has the PID, at any time.         *)
MatchLast(pid, ts) ==
    LET cs == {i \in Creates : events[i].pid = pid}
    IN {i \in cs : \A j \in cs :
          events[j].ts < events[i].ts \/ (events[j].ts = events[i].ts /\ j <= i)}

(* match, over processIndex: the process a PID stood for at a time, the one   *)
(* created last before it; without a time, the only one there is.             *)
Match(pid, ts) ==
    LET cs == {i \in Creates : events[i].pid = pid}
        before == {i \in cs : events[i].ts <= ts}
    IN IF ts = 0 THEN {i \in cs : cs = {i}}
       ELSE {i \in before : \A j \in before :
               events[j].ts < events[i].ts \/ (events[j].ts = events[i].ts /\ j <= i)}

(* processOffsetIndex: the last process event of an address.                  *)
AtOffset(off) ==
    LET is == {i \in Creates : events[i].off = off} IN {i \in is : \A j \in is : j <= i}

(* inherit: blanks the object has are filled.                                 *)
Inherit(e, o) ==
    [f \in DOMAIN e |->
        IF f \in Fields(e.obj) /\ e[f] = None THEN o[f] ELSE e[f]]

(* Mutant of Owned: the link names the address, not the guid.                  *)
OwnedAddress(e, i, how) ==
    Inherit([e EXCEPT !.owner = events[i].off, !.link = how], events[i])

Owned(e, i, how) ==
    Inherit([e EXCEPT !.owner = events[i].guid, !.link = how], events[i])

(* hostIdentity: the boot name, else the active one; the first of each.       *)
Host ==
    LET Saying(s) == Only(events, LAMBDA e : e.plugin = "registry" /\ e.row.says = s)
        names == Saying("computer") \o Saying("active")
    IN IF names = <<>> THEN None ELSE names[1].row.data

(* sidUserIndex: the last profile of a SID.                                   *)
ProfileUser(sid) ==
    LET rows == Only(events, LAMBDA e : e.plugin = "registry" /\ e.row.says = "profile"
                                               /\ e.row.sid = sid)
    IN IF rows = <<>> THEN None ELSE Last(rows).row.data

(* Mutant of Identified: a well-known account is named where no name is given.  *)
IdentifiedBlank(e) ==
    [e EXCEPT !.host = IF @ = None /\ "host" \in Fields(e.obj) THEN Host ELSE @,
              !.user = IF @ = None /\ e.uid \in WellKnown /\ "user" \in Fields(e.obj)
                         THEN Canonical[e.uid] ELSE @]

(* What every event gets: the host, and a well-known account its name.        *)
Identified(e) ==
    [e EXCEPT !.host = IF @ = None /\ "host" \in Fields(e.obj) THEN Host ELSE @,
              !.user = IF e.uid \in WellKnown /\ "user" \in Fields(e.obj)
                         THEN Canonical[e.uid] ELSE @]

Current == events[next]
Becomes(e) ==
    /\ events' = [events EXCEPT ![next] = e]
    /\ next' = next + 1
    /\ UNCHANGED <<world, plugins, pc, userByPID, loaded>>

Linking == pc = "link" /\ next <= Len(events)

LinkRegistry ==
    /\ Linking /\ Current.obj = "registry"
    /\ LET e == Identified(Current) IN
       Becomes(IF e.user = None /\ e.plugin = "registry" /\ e.row.says = "sidhive"
                 THEN [e EXCEPT !.user = ProfileUser(e.row.sid)] ELSE e)

(* An access is only linked by address.                                       *)
LinkAccess ==
    /\ Linking /\ Current.obj = "process" /\ Current.act = "access"
    /\ LET e == Identified(Current) IN
       \/ \E i \in AtOffset(e.ooff) : Becomes(Owned(e, i, "definitive"))
       \/ AtOffset(e.ooff) = {} /\ Becomes(e)

(* Mutant of Named: what the sessions say goes before what the process says.   *)
NamedBySession(e) ==
    IF e.pid # None /\ userByPID[e.pid] # None THEN [e EXCEPT !.user = userByPID[e.pid]] ELSE e

Named(e) == IF e.user = None /\ e.pid # None THEN [e EXCEPT !.user = userByPID[e.pid]] ELSE e

(* A process gets a blank user from the sessions, and its parent by PID and   *)
(* time; one that matches itself gets none.                                   *)
LinkProcess ==
    /\ Linking /\ Current.obj = "process" /\ Current.act # "access"
    /\ LET e == Named(Identified(Current))
           parents == (IF e.ppid = None THEN {} ELSE Match(e.ppid, e.ts)) \ {next}
       IN \/ \E i \in parents :
               Becomes([e EXCEPT !.parent = events[i].guid, !.link = "heuristic"])
          \/ parents = {} /\ Becomes(e)

(* Any other event belongs to the process at its address, else to the one its *)
(* PID stood for.                                                             *)
LinkSpoke ==
    /\ Linking /\ Current.obj \notin {"registry", "process"}
    /\ LET e == Identified(Current)
           here == IF e.ooff = None THEN {} ELSE AtOffset(e.ooff)
           then == IF e.opid = None THEN {} ELSE Match(e.opid, e.ts)
       IN \/ \E i \in here : Becomes(Owned(e, i, "definitive"))
          \/ here = {} /\ \E i \in then : Becomes(Owned(e, i, "heuristic"))
          \/ here = {} /\ then = {} /\ Becomes(e)

Enriched ==
    /\ pc = "link" /\ next > Len(events)
    /\ pc' = "done"
    /\ UNCHANGED <<world, plugins, next, events, userByPID, loaded>>

Next ==
    \/ Load \/ Loaded \/ CollapseMFT \/ CollapseSessions \/ Dedupe
    \/ LinkRegistry \/ LinkAccess \/ LinkProcess \/ LinkSpoke \/ Enriched

Spec == Init /\ [][Next]_vars

-----------------------------------------------------------------------------
(* Correctness. *)

Final == {i \in 1 .. Len(events) : pc = "done"}

(* The owner a link names.                                                     *)
Linked(e) == IF e.owner = None THEN None ELSE e.owner[2]

TypeOK ==
    /\ pc \in {"load", "mft", "sessions", "dedupe", "link", "done"} /\ next \in Nat
    /\ userByPID \in [PIDs -> Blankable(Users)]
    /\ \A i \in 1 .. Len(events) :
         LET e == events[i] IN
         /\ e.ts \in Times /\ e.user \in Blankable(Users) /\ e.uid \in Blankable(Sids)
         /\ e.path \in Blankable(Procs) /\ e.host \in Blankable(Hosts)
         /\ {e.owner, e.parent} \subseteq {Guid(p) : p \in Procs} \cup {None}
         /\ (e.link = None) = (e.owner = None /\ e.parent = None)

(* "not a reused-PID guess" (README.md:35): whoever had its PID before, what    *)
(* was found in a process, a connection or a service with an address is linked *)
(* to that very process, as long as no other one that is seen has the PID too; *)
(* what is listed by a PID that several have, to one of these.  A login is of  *)
(* its own process whoever shares the PID; so is a connection whose opening     *)
(* time is known, by PID alone, whenever that process and its creation time    *)
(* are.                                                                       *)
Spokes == {"thread", "module", "file"}
ListedSpoke(e) == e.obj \in Spokes /\ e.plugin # "mftscan"
Alone(p) == p \in Seen /\ \A q \in Seen : world.pid[q] = world.pid[p] => q = p

OwnerTrue ==
    \A i \in Final :
      LET e == events[i]
          p == IF e.from \in Conns THEN world.by[e.from] ELSE e.from
      IN "processes" \in plugins =>
           /\ ListedSpoke(e) =>
                e.link = "definitive" /\ Linked(e) \in Seen /\ world.pid[Linked(e)] = world.pid[p]
           /\ (ListedSpoke(e) \/ e.plugin \in {"network", "svcscan"}) /\ Alone(p) =>
                Linked(e) = p /\ e.link = "definitive"
           /\ e.obj = "user_session" => Linked(e) = p /\ e.link = "definitive"
           /\ e.plugin = "netstat" /\ e.ts # 0 /\ p \in Seen \cap world.dated => Linked(e) = p

(* "the latest wins (heuristic - PID reuse)" (enrich.go:6): the process that    *)
(* created another one, if it is seen and both creation times are known, is    *)
(* the parent its creation is linked to, whoever else had that PID.            *)
ParentTrue ==
    \A i \in Final :
      LET e == events[i] IN
      (e.obj = "process" /\ e.act = "create") =>
         LET q == world.parent[e.from] IN
         (q \in Seen \cap world.dated /\ e.from \in world.dated) => e.parent = Guid(q)

(* "accessed by two processes is two events, never one, while two collectors'   *)
(* views of the same owner's event still collapse" (enrich.go:121): over all   *)
(* passes every fact of every PID is there exactly once, as full as it was     *)
(* found, and an event without a guid always.                                  *)
Fact(e) == <<e.obj, e.act, e.guid, e.opid, e.target>>

FactsOnce ==
    pc = "done" =>
      /\ \A i, j \in Final :
           events[i].guid # None /\ Fact(events[i]) = Fact(events[j]) => i = j
      /\ \A e \in ToSet(loaded) : e.obj # "user_session" /\ e.guid # None =>
           \E i \in Final : Fact(events[i]) = Fact(e) /\ Populated(events[i]) >= Populated(e)
      /\ LET Bare(s) == Only(s, LAMBDA e : e.plugin = "keys" /\ e.guid = None)
         IN Len(Bare(events)) = Len(Bare(loaded))

(* "timestomp tell preserved (SI vs FN birth time)" (native-engine.md:120),     *)
(* "longest (non-8.3) file_name wins" (enrich.go:266): in whatever order its    *)
(* attributes come, a record of the MFT ends as one file, with the longest     *)
(* name and, if they differ, both creation times, its STANDARD_INFORMATION's   *)
(* first.                                                                      *)
Attributes(n, attr) == {r \in ToSet(world.mft) : r.n = n /\ r.attr = attr}

RecordOnce ==
    pc = "done" /\ "mftscan" \in plugins =>
      \A n \in {r.n : r \in ToSet(world.mft)} :
        \E i \in Final :
          /\ {j \in Final : events[j].guid = <<"mft", n>>} = {i}
          /\ \A si \in Attributes(n, "SI"), fn \in Attributes(n, "FN") :
               /\ Attributes(n, "SI") = {si}
               /\ fn.name > 0 /\ \A r \in Attributes(n, "FN") \ {fn} : r.name < fn.name
               =>
               /\ events[i].row.name = fn.name
               /\ {events[i].created, events[i].previous} \ {0} = {si.created, fn.created} \ {0}
               /\ si.created # 0 => events[i].created = si.created

(* "one login per LUID" (collectors.go:319), "no logon identity -> asserts NO   *)
(* login" (enrich.go:178): each logon identity that is seen logs in once, at   *)
(* the earliest time known of any of its processes, and nobody else does.      *)
OneLogin ==
    pc = "done" /\ "sessions" \in plugins =>
      LET logins == {i \in Final : events[i].obj = "user_session"} IN
      /\ {events[i].guid : i \in logins} = {<<"login", world.luid[p]>> : p \in {q \in Seen : world.luid[q] # None}}
      /\ \A i, j \in logins : events[i].guid = events[j].guid => i = j
      /\ \A i \in logins :
           LET known == {world.made[p] : p \in {q \in Seen \cap world.dated :
                                                   <<"login", world.luid[q]>> = events[i].guid}}
           IN events[i].ts = IF known = {} THEN 0 ELSE CHOOSE t \in known : \A u \in known : t <= u

(* "only where its own value is null" (enrich.go:10): however many passes and   *)
(* links touch it, no event loses a value it has, but for the name of a        *)
(* well-known account.                                                         *)
FillsOnlyBlanks ==
    [][pc = "link" =>
         \A i \in 1 .. Len(events) : \A f \in {"user", "uid", "path", "host", "owner", "parent"} :
           \/ events[i][f] = None \/ events'[i][f] = events[i][f]
           \/ f = "user" /\ events[i].uid \in WellKnown /\ events'[i][f] = Canonical[events[i].uid]]_vars

(* data.yaml:3 "so `user` means the same string in every table for the same     *)
(* SID": in the end every event of a well-known account has its name, whether  *)
(* the SID is its own or its process's, unless it was linked before its        *)
(* process was named itself.                                                   *)
OwnSid(e) == e.obj = "user_session" \/ (e.obj = "process" /\ e.act # "access")
LinkedAfter(i) == \E j \in Creates : j < i /\ events[j].guid = events[i].owner

OneNamePerSid ==
    \A i \in Final :
      events[i].uid \in WellKnown /\ (OwnSid(events[i]) \/ LinkedAfter(i)) =>
        events[i].user = Canonical[events[i].uid]

(* enrich.go:4 "whose create time is <= the child's": whoever reused whose PID, *)
(* seen or not, dated or not, the parent a creation is linked to is not        *)
(* younger than the process, and a termination is not linked to a parent that  *)
(* was created after it.                                                       *)
ParentOlder ==
    \A i \in Final :
      LET e == events[i] IN
      e.parent # None /\ e.ts # 0 => CreateTime(e.parent[2]) <= e.ts

=============================================================================

----------------------------- MODULE RuntimeLimits -----------------------------
(***************************************************************************)
(* What a DuckDB connection is allowed to use                              *)
(* (connectors/duckdb/connection.py): the limits of the host and of the    *)
(* container, the settings recommended from them, overrides by environment *)
(* variables and callers, and the opening of a connection.                 *)
(*                                                                         *)
(* Memory and disk are in twentieths of a GiB.  A file of /sys/fs/cgroup   *)
(* is Missing, Error (malformed), Unlimited ("max") or what it says; an    *)
(* environment variable is Missing, Error (no number), Unlimited           *)
(* (infinite) or a number.                                                 *)
(***************************************************************************)
EXTENDS Integers, FiniteSets, Sequences, SequencesExt

CONSTANTS Missing, Error, Unlimited

GiB == 20

\* The least element of a set of numbers, and the greater of two.
Least(S) == CHOOSE n \in S : \A o \in S : n <= o
Larger(a, b) == IF a > b THEN a ELSE b

\* {**second, **first}
Over(first, second) ==
    [k \in DOMAIN first \cup DOMAIN second |-> IF k \in DOMAIN first THEN first[k] ELSE second[k]]

IsNumber(value) == value \notin {Missing, Error, Unlimited}

-----------------------------------------------------------------------------
(* Limits.  `files` has the control files of the mount root, of the          *)
(* container's own group below it, and of version 1.                         *)

Exists(group) == group.memory # Missing \/ group.cpu # Missing

\* Mutation of Container: the path is joined without looking.
ContainerJoined(host) ==
    IF host.own = Missing THEN host.files.root ELSE host.files.own

\* Mutation of Container: the mount root, whatever the path.
ContainerRoot(host) == host.files.root

\* _container_cgroup_root: the path /proc/self/cgroup names, if it is below the
\* mount root with a control file.
Container(host) ==
    IF host.own # Missing /\ Exists(host.files.own) THEN host.files.own ELSE host.files.root

MemoryLimits(group, files) ==
    {n \in {group.memory, files.memory1} : IsNumber(n) /\ n > 0}

\* _memory_limit_bytes
Memory(host) == Least({host.memory} \cup MemoryLimits(Container(host), host.files))

RoundUp(quota) == Larger(1, -((-quota[1]) \div quota[2]))

\* _cpu_quota: version 1 is asked when version 2 has no quota.
CpuQuota(group, files) ==
    IF IsNumber(group.cpu) /\ group.cpu[2] # 0 THEN RoundUp(group.cpu)
    ELSE IF IsNumber(files.cpu1) /\ files.cpu1[1] > 0 /\ files.cpu1[2] # 0 THEN RoundUp(files.cpu1)
    ELSE Missing

Cpus(host) ==
    Larger(1, Least({host.cpus, host.affinity, CpuQuota(Container(host), host.files)} \ {Missing}))

-----------------------------------------------------------------------------
(* Settings. *)

EnvInt(raw, default, maximum) ==
    IF IsNumber(raw) THEN Larger(1, Least({raw, maximum})) ELSE default

\* An infinite variable cannot be made an integer.
BytesPerThread(raw, default) ==
    IF raw = Unlimited THEN Error
    ELSE IF IsNumber(raw) /\ raw > 0 THEN Larger(GiB \div 4, raw) ELSE default

\* Mutation of Threads: memory is not looked at.
ThreadsAll(cpus, usable, perThread) == cpus

Threads(cpus, usable, perThread) ==
    IF perThread = Missing THEN cpus ELSE Larger(1, Least({cpus, usable \div perThread}))

Spill(free) == Larger(GiB, Least({64 * GiB, free \div 2}))

\* The memory variable is taken as it is, empty or not.
Detected(host, env, perThread) ==
    LET cpus == Cpus(host)
        usable == Larger(GiB, (Memory(host) * 3) \div 5) IN
    [cpus |-> cpus, memory |-> Memory(host),
     threads |-> EnvInt(env.threads, Threads(cpus, usable, perThread), cpus),
     memory_limit |-> IF env.memory # Missing THEN env.memory
                      ELSE Larger(1, usable \div GiB) * GiB,
     max_temp |-> Spill(host.free)]

\* RuntimeResources.detect
Detect(host, env, default) ==
    LET perThread == BytesPerThread(env.perThread, default) IN
    IF perThread = Error THEN Error ELSE Detected(host, env, perThread)

OpenFiles(raw, partitions, ceiling) ==
    IF IsNumber(raw) THEN Larger(1, raw) ELSE Larger(1, Least({partitions, ceiling}))

BaseConfig == [preserve_insertion_order |-> FALSE, enable_object_cache |-> FALSE]

AsConfig(resources) ==
    Over([threads |-> resources.threads, memory_limit |-> resources.memory_limit,
          max_temp |-> resources.max_temp, open_files |-> 8], BaseConfig)

\* 2.5 GiB for a thread of spatial work.
Spatial(extensions) == IF "spatial" \in ToSet(extensions) THEN 50 ELSE Missing

\* Mutation of Analytics: what was detected wins over the caller.
AnalyticsDetected(host, env, extensions, config) ==
    LET resources == Detect(host, env, Spatial(extensions)) IN
    IF resources = Error THEN Error ELSE Over(AsConfig(resources), config)

\* DuckDBConnection.for_analytics
Analytics(host, env, extensions, config) ==
    LET resources == Detect(host, env, Spatial(extensions)) IN
    IF resources = Error THEN Error ELSE Over(config, AsConfig(resources))

\* DuckDBStreamEngine.create_streaming_connection: nothing is detected without a
\* directory to work in.
Streaming(host, env, directory, extensions, config) ==
    IF directory = Missing THEN Over(config, [preserve_insertion_order |-> FALSE])
    ELSE Analytics(host, env, extensions, config)

-----------------------------------------------------------------------------
(* Connections.  `store` says of an extension whether it can be loaded as it *)
(* is, what an installation does ("ok", "io", "other"), what a forced one    *)
(* does, and whether it can be loaded afterwards.                            *)

Installed(entry) ==
    \/ entry.install = "ok"
    \/ entry.install = "io" /\ entry.force = "ok"

\* ensure_extensions, for one extension.
Ensured(entry) == entry.cached \/ (Installed(entry) /\ entry.loads)

\* Mutation of Connect: a failed step leaves the connection open.
ConnectLeaks(settings, extensions, store, setup) ==
    [config |-> Over(settings, BaseConfig), open |-> TRUE,
     loaded |-> SelectSeq(extensions, LAMBDA e : Ensured(store[e])),
     ran |-> SelectSeq(setup, LAMBDA s : s),
     failed |-> (\E e \in ToSet(extensions) : ~Ensured(store[e])) \/ FALSE \in ToSet(setup)]

\* The extensions are loaded in order, and then the statements run in order, up
\* to the first that fails.
Loaded(extensions, store) ==
    Cardinality({n \in DOMAIN extensions : \A i \in 1..n : Ensured(store[extensions[i]])})
Ran(extensions, store, setup) ==
    Cardinality({n \in DOMAIN setup : /\ Loaded(extensions, store) = Len(extensions)
                                      /\ \A i \in 1..n : setup[i]})

\* DuckDBConnection.connect: what fails closes the connection and is raised.
Connect(settings, extensions, store, setup) ==
    LET loaded == Loaded(extensions, store)
        ran == Ran(extensions, store, setup)
        failed == loaded < Len(extensions) \/ ran < Len(setup) IN
    [config |-> Over(settings, BaseConfig), open |-> ~failed, failed |-> failed,
     loaded |-> SubSeq(extensions, 1, loaded), ran |-> SubSeq(setup, 1, ran)]

-----------------------------------------------------------------------------
\* The result of a call that fails is none of the results of a call that does not.
ErrorIsApart(host, env, extensions, config) ==
    LET perThread == BytesPerThread(env.perThread, Spatial(extensions)) IN
    perThread # Error =>
        /\ Error # Detected(host, env, perThread)
        /\ Error # Over(config, AsConfig(Detected(host, env, perThread)))

\* What is detected is what is enforced on the container, whether its group is
\* the mount root or below it, and the settings stay inside it, except that one
\* GiB and one thread are always taken; a caller's setting is kept.
LimitsAreEnforced(host, env, extensions, config) ==
    LET enforced == IF host.scoped THEN host.files.root ELSE host.files.own
        settings == Analytics(host, env, extensions, config)
        resources == Detect(host, env, Spatial(extensions))
        quota == CpuQuota(enforced, host.files) IN
    /\ settings = Error => env.perThread = Unlimited
    /\ settings # Error =>
        /\ resources.memory = Least({host.memory} \cup MemoryLimits(enforced, host.files))
        /\ quota # Missing => resources.threads <= quota
        /\ resources.threads \in 1..host.cpus
        /\ (env.memory = Missing /\ "memory_limit" \notin DOMAIN config)
           => settings.memory_limit <= Larger(GiB, resources.memory)
        /\ ({env.threads, env.perThread} = {Missing} /\ "spatial" \in ToSet(extensions))
           => resources.threads = 1 \/ resources.threads * 50 <= resources.memory
        /\ resources.max_temp <= Larger(GiB, host.free)
        /\ \A k \in DOMAIN config : settings[k] = config[k]

\* An open connection has every extension and has run every statement, in order;
\* one that could not is closed and nothing is run after the failure.
ConnectionIsWhole(settings, extensions, store, setup) ==
    LET con == Connect(settings, extensions, store, setup) IN
    /\ con.open => con.loaded = extensions /\ con.ran = setup
    /\ con.open = ~con.failed
    /\ con.ran # <<>> => con.loaded = extensions
    /\ \A k \in DOMAIN settings : con.config[k] = settings[k]
=============================================================================

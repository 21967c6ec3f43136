------------------------------ MODULE Startup ------------------------------
(***************************************************************************)
(* From the command line to the listening server: config.Load finds and    *)
(* reads one configuration file, tracing.Init makes the exporter from it   *)
(* and from the environment, taking the variables the file overrides out   *)
(* of the environment of the process while it does.                        *)
(*                                                                         *)
(* The files belong to the administrator, who may replace one between any  *)
(* two of the calls.  What a valid file holds is looked at no earlier than *)
(* it is opened.                                                           *)
(***************************************************************************)
EXTENDS Naturals, FiniteSets, Sequences, SequencesExt

CONSTANTS FileSystems,  \* what is found at each path when the process starts
          Environments, \* the environments it may be started in
          MaxTouches    \* bound: files replaced meanwhile

Paths == {"explicit", "local", "system"}

\* What os.Stat, os.Open and the parser make of a path: nothing there, no right to
\* look, no right to read, no configuration, or a configuration.
Status == {"absent", "hidden", "unreadable", "broken", "valid"}

Endpoints == {"ENDPOINT", "TRACES_ENDPOINT"}
HeaderLists == {"HEADERS", "TRACES_HEADERS"}
Resources == {"RESOURCE_ATTRIBUTES", "SERVICE_NAME"}
\* OTEL_*, "TRANSPORT" stands for the timeouts, compressions and certificates.
Variables == Endpoints \cup HeaderLists \cup Resources \cup {"TRANSPORT"}
\* An endpoint with a path does for HTTP and not for gRPC; blank counts as not set.
Value == {"unset", "blank", "good", "path", "malformed"}

ASSUME StartupAssumption == /\ FileSystems \subseteq [Paths -> Status]
                            /\ Environments \subseteq [Variables -> Value]
                            /\ MaxTouches \in Nat

\* What matters here of a configuration, and what config.Defaults says of it.
Configs == [endpoint : BOOLEAN, headers : BOOLEAN, grpc : BOOLEAN]
Defaults == [endpoint |-> TRUE, headers |-> FALSE, grpc |-> FALSE]

VARIABLES step,      \* the call that is next, "listening" or "failed"
          explicit,  \* the --config flag was given
          files,     \* the file system
          touches,   \* files replaced so far
          chosen,    \* the path that find returned, or "defaults"
          cfg,       \* config.Config, as loaded
          env,       \* the environment of the process
          toMask,    \* maskEnvironment: names still to be unset
          saved,     \* maskEnvironment: what was unset, <<name, value>>
          started,   \* history: the environment at the start
          gone       \* history: the paths that have been without a file

vars == <<step, explicit, files, touches, chosen, cfg, env, toMask, saved,
          started, gone>>

Step == {"find", "findSystem", "open", "scrub", "prepare", "mask", "validate", "export",
         "listening", "failed"}

TypeOK == /\ step \in Step /\ explicit \in BOOLEAN
          /\ files \in [Paths -> Status] /\ touches \in 0..MaxTouches
          /\ chosen \in Paths \cup {"defaults"} /\ cfg \in Configs
          /\ env \in [Variables -> Value] /\ started \in [Variables -> Value]
          /\ \A i \in DOMAIN toMask : toMask[i] \in Endpoints \cup HeaderLists
          /\ \A i \in DOMAIN saved : saved[i] \in Variables \X Value
          /\ gone \subseteq Paths

Missing(fs) == {p \in Paths : fs[p] = "absent"}

Init == /\ step = "find" /\ explicit \in BOOLEAN
        /\ files \in FileSystems /\ touches = 0
        /\ chosen = "defaults" /\ cfg = Defaults
        /\ env \in Environments
        /\ toMask = <<>> /\ saved = <<>>
        /\ started = env /\ gone = Missing(files)

-----------------------------------------------------------------------------
(* The administrator *)

Touch == /\ touches < MaxTouches /\ step \in {"find", "findSystem", "open"}
         /\ \E p \in Paths, s \in Status : files' = [files EXCEPT ![p] = s]
         /\ touches' = touches + 1
         /\ gone' = gone \cup Missing(files')
         /\ UNCHANGED <<step, explicit, chosen, cfg, env, toMask, saved, started>>

-----------------------------------------------------------------------------
(* config.Load *)

\* os.Stat: a file that cannot be read is there.
Exists(path) == files[path] \in {"unreadable", "broken", "valid"}

Choose(path) == chosen' = path /\ step' = "open"
Fail == step' = "failed" /\ UNCHANGED chosen

\* find with --config: that file and no other.
FindExplicit ==
    /\ step = "find" /\ explicit
    /\ IF Exists("explicit") THEN Choose("explicit") ELSE Fail
    /\ UNCHANGED <<explicit, files, touches, cfg, env, toMask, saved, started, gone>>

\* Slip: a path that cannot be looked at is taken for one without a file.
GoOnAfterAny(path) == ~Exists(path)
\* find goes on to the next path only when there is no file.
GoOnAfter(path) == files[path] = "absent"

\* find without it: the file in the working directory ...
FindLocal ==
    /\ step = "find" /\ ~explicit
    /\ IF Exists("local") THEN Choose("local")
       ELSE IF GoOnAfter("local") THEN step' = "findSystem" /\ UNCHANGED chosen
       ELSE Fail
    /\ UNCHANGED <<explicit, files, touches, cfg, env, toMask, saved, started, gone>>

\* ... or that of the system, or none.
FindSystem ==
    /\ step = "findSystem"
    /\ IF Exists("system") THEN Choose("system")
       ELSE IF GoOnAfter("system") THEN Choose("defaults")
       ELSE Fail
    /\ UNCHANGED <<explicit, files, touches, cfg, env, toMask, saved, started, gone>>

\* Load opens, parses, normalises and validates what was found.
Open ==
    /\ step = "open"
    /\ \/ /\ chosen # "defaults" /\ files[chosen] # "valid"
          /\ step' = "failed" /\ UNCHANGED cfg
       \/ /\ chosen # "defaults" /\ files[chosen] = "valid"
          /\ cfg' \in Configs
          /\ step' = "scrub"
       \/ /\ chosen = "defaults"
          /\ cfg' = Defaults
          /\ step' = "scrub"
    /\ UNCHANGED <<explicit, files, touches, chosen, env, toMask, saved, started, gone>>

-----------------------------------------------------------------------------
(* tracing.Init *)

\* scrubResourceEnv: the resource is configured in the file only; nobody asks
\* whether os.Unsetenv worked.
Scrub == /\ step = "scrub"
         /\ \E kept \in SUBSET Resources :
               env' = [v \in Variables |-> IF v \in Resources \ kept THEN "unset" ELSE env[v]]
         /\ step' = "prepare"
         /\ UNCHANGED <<explicit, files, touches, chosen, cfg, toMask, saved, started,
                        gone>>

\* Slip: of the variables for headers only the general one.
OverriddenGeneral(config) ==
    (IF config.endpoint THEN <<"ENDPOINT", "TRACES_ENDPOINT">> ELSE <<>>)
    \o (IF config.headers THEN <<"HEADERS">> ELSE <<>>)
\* prepareExporterEnvironment: which variables the configuration overrides.
Overridden(config) ==
    (IF config.endpoint THEN <<"ENDPOINT", "TRACES_ENDPOINT">> ELSE <<>>)
    \o (IF config.headers THEN <<"HEADERS", "TRACES_HEADERS">> ELSE <<>>)

Prepare == /\ step = "prepare"
           /\ toMask' = Overridden(cfg)
           /\ step' = "mask"
           /\ UNCHANGED <<explicit, files, touches, chosen, cfg, env, saved, started,
                          gone>>

\* The function maskEnvironment returns: os.Setenv for all that was saved.
Restored == [v \in Variables |->
                IF \E i \in DOMAIN saved : saved[i][1] = v
                THEN saved[CHOOSE i \in DOMAIN saved : saved[i][1] = v][2]
                ELSE env[v]]

\* Init returns, with or without an error, and what was saved is put back.
Return(to) == env' = Restored /\ saved' = <<>> /\ toMask' = <<>> /\ step' = to

\* maskEnvironment: one variable after the other, if it is set.
MaskNext ==
    /\ step = "mask" /\ toMask # <<>>
    /\ LET name == Head(toMask)
       IN /\ env' = [env EXCEPT ![name] = "unset"]
          /\ saved' = IF env[name] = "unset" THEN saved ELSE Append(saved, <<name, env[name]>>)
    /\ toMask' = Tail(toMask)
    /\ UNCHANGED <<step, explicit, files, touches, chosen, cfg, started, gone>>

\* Slip: what was unset before is left so.
MaskFailsHalfway ==
    /\ step = "mask" /\ toMask # <<>> /\ env[Head(toMask)] # "unset"
    /\ step' = "failed" /\ toMask' = <<>> /\ saved' = <<>>
    /\ UNCHANGED <<explicit, files, touches, chosen, cfg, env, started, gone>>
\* os.Unsetenv fails.
MaskFails ==
    /\ step = "mask" /\ toMask # <<>> /\ env[Head(toMask)] # "unset"
    /\ Return("failed")
    /\ UNCHANGED <<explicit, files, touches, chosen, cfg, started, gone>>

MaskDone == /\ step = "mask" /\ toMask = <<>>
            /\ step' = "validate"
            /\ UNCHANGED <<explicit, files, touches, chosen, cfg, env, toMask, saved,
                           started, gone>>

\* What validateExporterEnvironment refuses.
Invalid(config, name, value) ==
    \/ value = "malformed" /\ name \notin Resources
    \/ value = "path" /\ name \in Endpoints /\ config.grpc

Validate ==
    /\ step = "validate"
    /\ \/ /\ \E v \in Variables : Invalid(cfg, v, env[v])
          /\ Return("failed")
       \/ /\ \A v \in Variables : ~Invalid(cfg, v, env[v])
          /\ step' = "export"
          /\ UNCHANGED <<env, saved, toMask>>
    /\ UNCHANGED <<explicit, files, touches, chosen, cfg, started, gone>>

\* newExporter may fail for reasons of its own.
ExportFails == /\ step = "export"
               /\ Return("failed")
               /\ UNCHANGED <<explicit, files, touches, chosen, cfg, started, gone>>

\* Exporter and provider are there, Init returns, and run has the server listen.
Export == /\ step = "export"
          /\ Return("listening")
          /\ UNCHANGED <<explicit, files, touches, chosen, cfg, started, gone>>

Next == \/ Touch
        \/ FindExplicit \/ FindLocal \/ FindSystem \/ Open
        \/ Scrub \/ Prepare \/ MaskNext \/ MaskFails \/ MaskDone \/ Validate
        \/ Export \/ ExportFails

Spec == Init /\ [][Next]_vars

-----------------------------------------------------------------------------
(* Properties *)

InInit == step \in {"prepare", "mask", "validate", "export"}

\* Whichever way tracing.Init ends, the process has the environment it was started
\* with, blank values included, but for the resource variables, which are not used.
EnvironmentRestored ==
    ~InInit => \A v \in Variables : \/ env[v] = started[v]
                                   \/ (v \in Resources /\ env[v] = "unset")

\* No file but the one that was asked for, or the first there was: a file that
\* cannot be read, or is no configuration, stops the process and is never passed
\* over, whatever happens to the files meanwhile.
NoFilePassedOver ==
    step = "listening" =>
        CASE chosen = "explicit" -> explicit
          [] chosen = "local" -> ~explicit
          [] chosen = "system" -> ~explicit /\ "local" \in gone
          [] chosen = "defaults" -> ~explicit /\ {"local", "system"} \subseteq gone

\* A variable the file overrides has no say, not even by being malformed; a
\* malformed one it does not override stops the process before there is an exporter
\* (endpoint_security_test.go:104,131).
InForce == Variables \ ((IF cfg.endpoint THEN Endpoints ELSE {})
                         \cup (IF cfg.headers THEN HeaderLists ELSE {}))
OverriddenHaveNoSay ==
    step = "validate" => ((\E v \in Variables : Invalid(cfg, v, env[v]))
                            <=> (\E v \in InForce : Invalid(cfg, v, started[v])))
=============================================================================

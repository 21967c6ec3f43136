---------------------------- MODULE StartupProofs ----------------------------
(***************************************************************************)
(* Theorems about Startup, for every file system, every set of             *)
(* environments and any number of files replaced meanwhile: the            *)
(* environment of the process survives tracing.Init, no file is passed     *)
(* over, and what the file overrides has no say.                           *)
(*                                                                         *)
(* The argument about the environment: a variable is either as it was at   *)
(* the start, or a resource variable that was taken out for good, or       *)
(* remembered in `saved` with the value it had at the start.  That it is   *)
(* still that value when it is saved holds because a variable that was     *)
(* saved is unset, and an unset one is not saved.                          *)
(***************************************************************************)
EXTENDS Startup, SequenceTheorems, TLAPS

Masked == {"mask", "validate", "export"}

\* The names in a sequence, and the variables that have been saved.
Names(s) == {s[i] : i \in DOMAIN s}
Saved == {saved[i][1] : i \in DOMAIN saved}
\* The variables the configuration overrides.
Override == Variables \ InForce

\* Every variable has its type, with the shape of the two sequences.
ShapeInv == /\ TypeOK
            /\ toMask \in Seq(Endpoints \cup HeaderLists)
            /\ saved \in Seq((Endpoints \cup HeaderLists) \X Value)

\* What the environment is, compared with the one at the start.
EnvInv ==
    /\ \A i \in DOMAIN saved : /\ saved[i][2] = started[saved[i][1]]
                               /\ env[saved[i][1]] = "unset"
    /\ \A v \in Variables \ Saved : \/ env[v] = started[v]
                                    \/ v \in Resources /\ env[v] = "unset"
    /\ step \notin Masked => saved = <<>> /\ toMask = <<>>

\* What has been masked and what is still to be.
MaskInv ==
    step \in Masked => /\ Names(toMask) \subseteq Override
                       /\ Saved \subseteq Override
                       /\ \A v \in Override : env[v] = "unset" \/ v \in Names(toMask)
                       /\ step # "mask" => toMask = <<>>

\* Which files have been missing when one was chosen.
ChosenFirst ==
    /\ explicit <=> chosen = "explicit"
    /\ chosen \in {"system", "defaults"} => "local" \in gone
    /\ chosen = "defaults" => "system" \in gone
FindInv ==
    /\ Missing(files) \subseteq gone
    /\ step = "findSystem" => ~explicit /\ "local" \in gone
    /\ step \notin {"find", "findSystem", "failed"} => ChosenFirst

\* The inductive invariant.
IInv == ShapeInv /\ EnvInv /\ MaskInv /\ FindInv

-----------------------------------------------------------------------------
(* Operators *)

\* The first of a sequence of names and the rest of it.
LEMMA NamesOfTail ==
    ASSUME NEW T, NEW s \in Seq(T), s # <<>>
    PROVE  /\ Tail(s) \in Seq(T) /\ Head(s) \in T
           /\ Names(s) = {Head(s)} \cup Names(Tail(s))
<1>1. /\ Tail(s) \in Seq(T) /\ Head(s) = s[1] /\ Len(s) \in Nat \ {0}
      /\ Len(Tail(s)) = Len(s) - 1
      /\ DOMAIN s = 1..Len(s) /\ DOMAIN Tail(s) = 1..Len(Tail(s))
      /\ \A i \in 1..Len(Tail(s)) : Tail(s)[i] = s[i + 1]
  BY HeadTailProperties, EmptySeq
<1>2. ASSUME NEW i \in DOMAIN s
      PROVE  s[i] \in {Head(s)} \cup Names(Tail(s))
  <2>1. CASE i = 1
    BY <1>1, <2>1
  <2>2. CASE i # 1
    <3>1. i - 1 \in DOMAIN Tail(s) /\ Tail(s)[i - 1] = s[i]
      BY <1>1, <2>2
    <3> QED BY <3>1 DEF Names
  <2> QED BY <2>1, <2>2
<1>3. ASSUME NEW i \in DOMAIN Tail(s)
      PROVE  Tail(s)[i] \in Names(s)
  <2>1. i + 1 \in DOMAIN s /\ Tail(s)[i] = s[i + 1]
    BY <1>1
  <2> QED BY <2>1 DEF Names
<1>4. Head(s) \in Names(s)
  BY <1>1 DEF Names
<1>5. Head(s) \in T
  BY <1>1
<1> QED BY <1>1, <1>2, <1>3, <1>4, <1>5 DEF Names

\* prepareExporterEnvironment names exactly the variables that are overridden.
LEMMA OverriddenNames ==
    ASSUME NEW config \in Configs
    PROVE  /\ Overridden(config) \in Seq(Endpoints \cup HeaderLists)
           /\ Names(Overridden(config)) = (IF config.endpoint THEN Endpoints ELSE {})
                                          \cup (IF config.headers THEN HeaderLists ELSE {})
<1> DEFINE e == <<"ENDPOINT", "TRACES_ENDPOINT">>
           h == <<"HEADERS", "TRACES_HEADERS">>
           T == Endpoints \cup HeaderLists
<1>1. config.endpoint \in BOOLEAN /\ config.headers \in BOOLEAN
  BY DEF Configs
<1>2. Names(e) = Endpoints /\ Names(h) = HeaderLists /\ Names(<<>>) = {}
  BY DEF Names, Endpoints, HeaderLists
<1>3. e \in Seq(T) /\ h \in Seq(T) /\ <<>> \in Seq(T)
  BY DEF Endpoints, HeaderLists
<1>4. ASSUME NEW a \in Seq(T), NEW b \in Seq(T)
      PROVE  a \o b \in Seq(T) /\ Names(a \o b) = Names(a) \cup Names(b)
  <2>1. /\ a \o b \in Seq(T) /\ Len(a \o b) = Len(a) + Len(b)
        /\ \A i \in 1..Len(a) + Len(b) :
              (a \o b)[i] = IF i <= Len(a) THEN a[i] ELSE b[i - Len(a)]
    BY ConcatProperties
  <2>2. Len(a) \in Nat /\ Len(b) \in Nat /\ DOMAIN a = 1..Len(a) /\ DOMAIN b = 1..Len(b)
        /\ DOMAIN (a \o b) = 1..Len(a) + Len(b)
    BY <2>1
  <2>3. Names(a \o b) \subseteq Names(a) \cup Names(b)
    <3>1. ASSUME NEW i \in DOMAIN (a \o b) PROVE (a \o b)[i] \in Names(a) \cup Names(b)
      <4>1. CASE i <= Len(a)
        BY <2>1, <2>2, <4>1 DEF Names
      <4>2. CASE ~(i <= Len(a))
        <5>1. i - Len(a) \in DOMAIN b /\ (a \o b)[i] = b[i - Len(a)]
          BY <2>1, <2>2, <4>2
        <5> QED BY <5>1 DEF Names
      <4> QED BY <4>1, <4>2
    <3> QED BY <3>1 DEF Names
  <2>4. Names(a) \subseteq Names(a \o b)
    <3>1. ASSUME NEW i \in DOMAIN a PROVE a[i] \in Names(a \o b)
      <4>1. i \in DOMAIN (a \o b) /\ (a \o b)[i] = a[i]
        BY <2>1, <2>2
      <4> QED BY <4>1 DEF Names
    <3> QED BY <3>1 DEF Names
  <2>5. Names(b) \subseteq Names(a \o b)
    <3>1. ASSUME NEW i \in DOMAIN b PROVE b[i] \in Names(a \o b)
      <4>1. Len(a) + i \in DOMAIN (a \o b) /\ (a \o b)[Len(a) + i] = b[i]
        BY <2>1, <2>2
      <4> QED BY <4>1 DEF Names
    <3> QED BY <3>1 DEF Names
  <2> QED BY <2>1, <2>3, <2>4, <2>5
<1> HIDE DEF e, h, T
<1> DEFINE x == IF config.endpoint THEN e ELSE <<>>
           y == IF config.headers THEN h ELSE <<>>
<1>5. x \in Seq(T) /\ y \in Seq(T)
  BY <1>3
<1>6. /\ Names(x) = (IF config.endpoint THEN Endpoints ELSE {})
      /\ Names(y) = (IF config.headers THEN HeaderLists ELSE {})
  BY <1>2
<1>7. Overridden(config) = x \o y
  BY DEF Overridden, e, h
<1> HIDE DEF x, y
<1>8. x \o y \in Seq(T) /\ Names(x \o y) = Names(x) \cup Names(y)
  BY <1>4, <1>5
<1> QED BY <1>6, <1>7, <1>8 DEF T

\* What Init puts back is the environment of the start, but for the resource.
LEMMA RestoredIsStarted ==
    ASSUME ShapeInv, EnvInv
    PROVE  /\ Restored \in [Variables -> Value]
           /\ \A v \in Variables : \/ Restored[v] = started[v]
                                   \/ v \in Resources /\ Restored[v] = "unset"
<1>1. ASSUME NEW v \in Variables
      PROVE  /\ Restored[v] \in Value
             /\ Restored[v] = started[v] \/ (v \in Resources /\ Restored[v] = "unset")
  <2>a. env[v] \in Value /\ started[v] \in Value
    BY DEF ShapeInv, TypeOK
  <2>1. CASE v \in Saved
    <3> DEFINE k == CHOOSE i \in DOMAIN saved : saved[i][1] = v
    <3>1. k \in DOMAIN saved /\ saved[k][1] = v
      BY <2>1 DEF Saved
    <3>2. Restored[v] = saved[k][2]
      BY <2>1 DEF Restored, Saved
    <3> HIDE DEF k
    <3> QED BY <2>a, <3>1, <3>2 DEF EnvInv
  <2>2. CASE v \notin Saved
    <3>1. Restored[v] = env[v]
      BY <2>2 DEF Restored, Saved
    <3> QED BY <2>a, <2>2, <3>1 DEF EnvInv
  <2> QED BY <2>1, <2>2
<1>2. Restored = [v \in Variables |-> Restored[v]]
  BY DEF Restored
<1> QED BY <1>1, <1>2

-----------------------------------------------------------------------------
(* The steps *)

LEMMA InitIInv == Init => IInv
<1> SUFFICES ASSUME Init PROVE IInv
  OBVIOUS
<1>1. ShapeInv
  BY StartupAssumption DEF Init, ShapeInv, TypeOK, Step, Configs, Defaults, Missing
<1>2. EnvInv /\ MaskInv
  BY DEF Init, EnvInv, MaskInv, Masked, Saved
<1>3. FindInv
  BY DEF Init, FindInv
<1> QED BY <1>1, <1>2, <1>3 DEF IInv

\* The administrator replaces a file.
LEMMA TouchStep ==
    ASSUME IInv, Touch
    PROVE  IInv'
<1>a. ShapeInv /\ EnvInv /\ MaskInv /\ FindInv
  BY DEF IInv
<1>b. /\ touches < MaxTouches /\ touches' = touches + 1
      /\ files' \in [Paths -> Status] /\ gone' = gone \cup Missing(files')
      /\ UNCHANGED <<step, explicit, chosen, cfg, env, toMask, saved, started>>
  BY <1>a DEF Touch, ShapeInv, TypeOK
<1>1. ShapeInv'
  BY <1>a, <1>b, StartupAssumption DEF ShapeInv, TypeOK, Missing
<1>2. EnvInv' /\ MaskInv'
  BY <1>a, <1>b DEF EnvInv, MaskInv, Saved, Names, Override, InForce
<1>3. FindInv'
  BY <1>a, <1>b DEF FindInv, ChosenFirst, Missing
<1> QED BY <1>1, <1>2, <1>3 DEF IInv

\* config.Load up to the file that is opened.
LEMMA FindSteps ==
    ASSUME IInv, FindExplicit \/ FindLocal \/ FindSystem
    PROVE  IInv'
<1>a. ShapeInv /\ EnvInv /\ MaskInv /\ FindInv
  BY DEF IInv
<1>b. /\ step \in {"find", "findSystem"} /\ step' \in {"findSystem", "open", "failed"}
      /\ chosen' \in Paths \cup {"defaults"}
      /\ UNCHANGED <<explicit, files, touches, cfg, env, toMask, saved, started, gone>>
  BY <1>a DEF FindExplicit, FindLocal, FindSystem, Choose, Fail, ShapeInv, TypeOK, Paths
<1>1. ShapeInv'
  BY <1>a, <1>b DEF ShapeInv, TypeOK, Step
<1>2. EnvInv' /\ MaskInv'
  BY <1>a, <1>b DEF EnvInv, MaskInv, Saved, Masked
<1>3. FindInv'
  <2>1. \A p \in Paths : files[p] = "absent" => p \in gone
    BY <1>a DEF FindInv, Missing
  <2>2. "local" \in Paths /\ "system" \in Paths
    BY DEF Paths
  <2>3. CASE FindExplicit
    BY <1>a, <1>b, <2>3 DEF FindExplicit, Choose, Fail, FindInv, ChosenFirst,
                           Missing
  <2>4. CASE FindLocal
    BY <1>a, <1>b, <2>1, <2>2, <2>4 DEF FindLocal, GoOnAfter, Choose, Fail, FindInv, ChosenFirst,
                           Missing
  <2>5. CASE FindSystem
    BY <1>a, <1>b, <2>1, <2>2, <2>5 DEF FindSystem, GoOnAfter, Choose, Fail, FindInv, ChosenFirst,
                           Missing
  <2> QED BY <2>3, <2>4, <2>5
<1> QED BY <1>1, <1>2, <1>3 DEF IInv

\* The configuration is read, the resource taken out of the environment.
LEMMA LoadSteps ==
    ASSUME IInv, Open \/ Scrub
    PROVE  IInv'
<1>a. ShapeInv /\ EnvInv /\ MaskInv /\ FindInv
  BY DEF IInv
<1>b. /\ step \in {"open", "scrub"} /\ step' \in {"failed", "scrub", "prepare"}
      /\ cfg' \in Configs
      /\ UNCHANGED <<explicit, files, touches, chosen, toMask, saved, started, gone>>
  <2>1. Defaults \in Configs /\ cfg \in Configs
    BY <1>a DEF Configs, Defaults, ShapeInv, TypeOK
  <2>2. CASE Open
    BY <2>1, <2>2 DEF Open
  <2>3. CASE Scrub
    BY <2>1, <2>3 DEF Scrub
  <2> QED BY <2>2, <2>3
<1>c. /\ env' \in [Variables -> Value]
      /\ \A v \in Variables : env'[v] = env[v] \/ (v \in Resources /\ env'[v] = "unset")
  <2>1. CASE Open
    BY <1>a, <2>1 DEF Open, ShapeInv, TypeOK
  <2>2. CASE Scrub
    <3>1. PICK kept \in SUBSET Resources :
             env' = [v \in Variables |-> IF v \in Resources \ kept THEN "unset" ELSE env[v]]
      BY <2>2 DEF Scrub
    <3> QED BY <1>a, <3>1 DEF ShapeInv, TypeOK, Value
  <2> QED BY <2>1, <2>2
<1>1. ShapeInv'
  BY <1>a, <1>b, <1>c DEF ShapeInv, TypeOK, Step
<1>2. EnvInv'
  <2>1. saved = <<>> /\ toMask = <<>>
    BY <1>a, <1>b DEF EnvInv, Masked
  <2> QED BY <1>a, <1>b, <1>c, <2>1 DEF EnvInv, Saved
<1>3. MaskInv'
  BY <1>b DEF MaskInv, Masked
<1>4. FindInv'
  BY <1>a, <1>b DEF FindInv, ChosenFirst
<1> QED BY <1>1, <1>2, <1>3, <1>4 DEF IInv

\* Which variables are to be taken out of the environment.
LEMMA PrepareStep ==
    ASSUME IInv, Prepare
    PROVE  IInv'
<1>a. ShapeInv /\ EnvInv /\ MaskInv /\ FindInv
  BY DEF IInv
<1>b. /\ step = "prepare" /\ step' = "mask" /\ toMask' = Overridden(cfg)
      /\ UNCHANGED <<explicit, files, touches, chosen, cfg, env, saved, started, gone>>
  BY DEF Prepare
<1>1. /\ Overridden(cfg) \in Seq(Endpoints \cup HeaderLists)
      /\ Names(Overridden(cfg)) = (IF cfg.endpoint THEN Endpoints ELSE {})
                                  \cup (IF cfg.headers THEN HeaderLists ELSE {})
  BY <1>a, OverriddenNames DEF ShapeInv, TypeOK
<1>2. ShapeInv'
  <2>1. \A i \in DOMAIN toMask' : toMask'[i] \in Endpoints \cup HeaderLists
    BY <1>b, <1>1
  <2>2. step' \in Step
    BY <1>b DEF Step
  <2> QED BY <1>a, <1>b, <1>1, <2>1, <2>2 DEF ShapeInv, TypeOK
<1>3. EnvInv' /\ saved = <<>>
  BY <1>a, <1>b DEF EnvInv, Masked, Saved
<1>4. MaskInv'
  <2>1. Names(toMask') = Override
    BY <1>b, <1>1 DEF Override, InForce, Variables, Endpoints, HeaderLists
  <2>2. Saved = {}
    BY <1>3 DEF Saved
  <2> QED BY <1>b, <2>1, <2>2 DEF MaskInv, Override, InForce, Saved, Names
<1>5. FindInv'
  BY <1>a, <1>b DEF FindInv, ChosenFirst
<1> QED BY <1>2, <1>3, <1>4, <1>5 DEF IInv

\* One variable is taken out of the environment, and saved if it was set.
LEMMA MaskNextStep ==
    ASSUME IInv, MaskNext
    PROVE  IInv'
<1>a. ShapeInv /\ EnvInv /\ MaskInv /\ FindInv
  BY DEF IInv
<1> DEFINE T == (Endpoints \cup HeaderLists) \X Value
<1>b. PICK name : name = Head(toMask)
  OBVIOUS
<1>c. /\ step = "mask" /\ toMask # <<>> /\ toMask' = Tail(toMask)
      /\ env' = [env EXCEPT ![name] = "unset"]
      /\ saved' = IF env[name] = "unset" THEN saved ELSE Append(saved, <<name, env[name]>>)
      /\ UNCHANGED <<step, explicit, files, touches, chosen, cfg, started, gone>>
  BY <1>b DEF MaskNext
<1>1. /\ toMask' \in Seq(Endpoints \cup HeaderLists) /\ name \in Endpoints \cup HeaderLists
      /\ Names(toMask) = {name} \cup Names(toMask')
  BY <1>a, <1>b, <1>c, NamesOfTail DEF ShapeInv
<1>2. /\ name \in Variables /\ name \notin Resources
      /\ env \in [Variables -> Value] /\ env' \in [Variables -> Value]
      /\ env'[name] = "unset" /\ \A v \in Variables \ {name} : env'[v] = env[v]
  BY <1>a, <1>c, <1>1 DEF ShapeInv, TypeOK, Variables, Endpoints, HeaderLists, Resources, Value
<1>3. saved \in Seq(T)
  BY <1>a DEF ShapeInv
<1>4. CASE env[name] = "unset"
  <2>1. saved' = saved /\ env' = env
    BY <1>2, <1>4, <1>c
  <2>2. ShapeInv'
    <3>1. \A i \in DOMAIN toMask' : toMask'[i] \in Endpoints \cup HeaderLists
      BY <1>1
    <3> QED BY <1>a, <1>c, <1>1, <2>1, <3>1 DEF ShapeInv, TypeOK
  <2>3. EnvInv'
    BY <1>a, <1>c, <2>1 DEF EnvInv, Saved, Masked
  <2>4. MaskInv'
    <3>1. \A v \in Override : env[v] = "unset" \/ v \in Names(toMask')
      BY <1>a, <1>c, <1>1, <1>4 DEF MaskInv, Masked
    <3> QED BY <1>a, <1>c, <1>1, <2>1, <3>1 DEF MaskInv, Masked, Override, InForce, Saved, Names
  <2>5. FindInv'
    BY <1>a, <1>c DEF FindInv, ChosenFirst
  <2> QED BY <2>2, <2>3, <2>4, <2>5 DEF IInv
<1>5. CASE env[name] # "unset"
  <2>1. PICK new \in T : new = <<name, env[name]>>
    BY <1>1, <1>2
  <2>2. /\ saved' \in Seq(T) /\ Len(saved') = Len(saved) + 1 /\ Len(saved) \in Nat
        /\ DOMAIN saved = 1..Len(saved) /\ DOMAIN saved' = 1..Len(saved')
        /\ saved'[Len(saved')] = new
        /\ \A i \in DOMAIN saved : saved'[i] = saved[i]
    BY <1>3, <1>5, <1>c, <2>1, AppendProperties
  <2>3. Saved' = Saved \cup {name}
    BY <2>1, <2>2 DEF Saved
  <2>4. ShapeInv'
    <3>1. \A i \in DOMAIN saved' : saved'[i] \in Variables \X Value
      BY <2>2 DEF Variables
    <3>2. \A i \in DOMAIN toMask' : toMask'[i] \in Endpoints \cup HeaderLists
      BY <1>1
    <3> QED BY <1>a, <1>c, <1>1, <1>2, <2>2, <3>1, <3>2 DEF ShapeInv, TypeOK
  <2>5. EnvInv'
    <3>1. name \notin Saved /\ env[name] = started[name]
      BY <1>a, <1>2, <1>5 DEF EnvInv, Saved
    <3>2. ASSUME NEW i \in DOMAIN saved'
          PROVE  saved'[i][2] = started[saved'[i][1]] /\ env'[saved'[i][1]] = "unset"
      <4>1. CASE i \in DOMAIN saved
        <5>1. saved'[i] = saved[i] /\ saved[i][1] # name /\ saved[i][1] \in Variables
          BY <1>a, <2>2, <3>1, <4>1 DEF Saved, ShapeInv, TypeOK
        <5> QED BY <1>a, <1>2, <4>1, <5>1 DEF EnvInv
      <4>2. CASE i \notin DOMAIN saved
        <5>1. saved'[i] = new
          BY <2>2, <4>2
        <5> QED BY <1>2, <2>1, <3>1, <5>1
      <4> QED BY <4>1, <4>2
    <3>3. \A v \in Variables \ Saved' : env'[v] = started[v]
                                        \/ (v \in Resources /\ env'[v] = "unset")
      BY <1>a, <1>2, <2>3 DEF EnvInv
    <3> QED BY <1>c, <3>2, <3>3 DEF EnvInv, Masked
  <2>6. MaskInv'
    <3>1. name \in Override
      BY <1>a, <1>c, <1>1 DEF MaskInv, Masked
    <3>2. \A v \in Override : env'[v] = "unset" \/ v \in Names(toMask')
      BY <1>a, <1>c, <1>1, <1>2 DEF MaskInv, Masked, Override
    <3>3. Override' = Override /\ Names(toMask)' = Names(toMask')
      BY <1>c DEF Override, InForce, Names
    <3> QED BY <1>a, <1>c, <1>1, <2>3, <3>1, <3>2, <3>3 DEF MaskInv, Masked
  <2>7. FindInv'
    BY <1>a, <1>c DEF FindInv, ChosenFirst
  <2> QED BY <2>4, <2>5, <2>6, <2>7 DEF IInv
<1> QED BY <1>4, <1>5

\* Nothing is left to mask, and what is left in force is valid.
LEMMA CheckedSteps ==
    ASSUME IInv, step \in {"mask", "validate"}, toMask = <<>>, step' \in {"validate", "export"},
           UNCHANGED <<explicit, files, touches, chosen, cfg, env, toMask, saved, started, gone>>
    PROVE  IInv'
<1>a. ShapeInv /\ EnvInv /\ MaskInv /\ FindInv
  BY DEF IInv
<1>1. ShapeInv'
  BY <1>a DEF ShapeInv, TypeOK, Step
<1>2. EnvInv' /\ MaskInv'
  BY <1>a DEF EnvInv, MaskInv, Masked, Saved, Override, InForce, Names
<1>3. FindInv'
  BY <1>a DEF FindInv, ChosenFirst
<1> QED BY <1>1, <1>2, <1>3 DEF IInv

\* tracing.Init returns.
LEMMA ReturnSteps ==
    ASSUME IInv, NEW to \in {"failed", "listening"}, step \in Masked, Return(to),
           UNCHANGED <<explicit, files, touches, chosen, cfg, started, gone>>
    PROVE  IInv'
<1>a. ShapeInv /\ EnvInv /\ MaskInv /\ FindInv
  BY DEF IInv
<1>b. env' = Restored /\ saved' = <<>> /\ toMask' = <<>> /\ step' = to
  BY DEF Return
<1>1. /\ env' \in [Variables -> Value]
      /\ \A v \in Variables : env'[v] = started[v] \/ (v \in Resources /\ env'[v] = "unset")
  BY <1>a, <1>b, RestoredIsStarted
<1>2. ShapeInv'
  BY <1>a, <1>b, <1>1 DEF ShapeInv, TypeOK, Step
<1>3. EnvInv' /\ MaskInv'
  BY <1>b, <1>1 DEF EnvInv, MaskInv, Masked, Saved
<1>4. FindInv'
  BY <1>a, <1>b DEF FindInv, ChosenFirst, Masked
<1> QED BY <1>2, <1>3, <1>4 DEF IInv

LEMMA NextIInv == IInv /\ [Next]_vars => IInv'
<1> SUFFICES ASSUME IInv, [Next]_vars PROVE IInv'
  OBVIOUS
<1>1. CASE Touch
  BY <1>1, TouchStep
<1>2. CASE FindExplicit \/ FindLocal \/ FindSystem
  BY <1>2, FindSteps
<1>3. CASE Open \/ Scrub
  BY <1>3, LoadSteps
<1>4. CASE Prepare
  BY <1>4, PrepareStep
<1>5. CASE MaskNext
  BY <1>5, MaskNextStep
<1>6. CASE MaskDone
  BY <1>6, CheckedSteps DEF MaskDone
<1>7. CASE MaskFails \/ Export \/ ExportFails
  BY <1>7, ReturnSteps DEF MaskFails, Export, ExportFails, Masked
<1>8. CASE Validate
  <2>1. step = "validate" /\ toMask = <<>>
    BY <1>8 DEF Validate, IInv, MaskInv, Masked
  <2>2. UNCHANGED <<explicit, files, touches, chosen, cfg, started, gone>>
    BY <1>8 DEF Validate
  <2>3. CASE Return("failed")
    BY <2>1, <2>2, <2>3, ReturnSteps DEF Masked
  <2>4. CASE step' = "export" /\ UNCHANGED <<env, saved, toMask>>
    BY <2>1, <2>2, <2>4, CheckedSteps
  <2> QED BY <1>8, <2>3, <2>4 DEF Validate
<1>9. CASE UNCHANGED vars
  <2>1. UNCHANGED <<step, explicit, files, touches, chosen, cfg, env, toMask, saved,
                    started, gone>>
    BY <1>9 DEF vars
  <2>2. ShapeInv'
    BY <2>1 DEF IInv, ShapeInv, TypeOK
  <2>3. EnvInv' /\ MaskInv'
    BY <2>1 DEF IInv, EnvInv, MaskInv, Saved, Override, InForce, Names
  <2>4. FindInv'
    BY <2>1 DEF IInv, FindInv, ChosenFirst
  <2> QED BY <2>2, <2>3, <2>4 DEF IInv
<1> QED BY <1>1, <1>2, <1>3, <1>4, <1>5, <1>6, <1>7, <1>8, <1>9 DEF Next

-----------------------------------------------------------------------------
(* The theorems *)

\* The inductive invariant holds of every behaviour, and with it the types.
THEOREM Invariance == Spec => []IInv
BY InitIInv, NextIInv, PTL DEF Spec

\* However tracing.Init ends, the process has the environment it was started
\* with, but for the resource variables.
THEOREM EnvironmentSurvives == Spec => []EnvironmentRestored
<1>1. IInv => EnvironmentRestored
  BY DEF IInv, EnvInv, Saved, Masked, EnvironmentRestored, InInit, ShapeInv, TypeOK, Step
<1> QED BY <1>1, Invariance, PTL

\* The server listens with the file that was asked for, with the first there was,
\* or with none because there was none.
THEOREM FilesAreTakenInOrder == Spec => []NoFilePassedOver
<1>1. IInv => NoFilePassedOver
  BY DEF IInv, FindInv, ChosenFirst, NoFilePassedOver, ShapeInv, TypeOK, Paths
<1> QED BY <1>1, Invariance, PTL

\* What is refused is what the variables in force were when the process started.
THEOREM OnlyWhatIsInForceCounts == Spec => []OverriddenHaveNoSay
<1>1. IInv => OverriddenHaveNoSay
  <2> SUFFICES ASSUME IInv, step = "validate"
               PROVE  (\E v \in Variables : Invalid(cfg, v, env[v]))
                         <=> (\E v \in InForce : Invalid(cfg, v, started[v]))
    BY DEF OverriddenHaveNoSay
  <2>a. ShapeInv /\ EnvInv /\ MaskInv
    BY DEF IInv
  <2>1. \A name, config : ~Invalid(config, name, "unset")
    BY DEF Invalid
  <2>2. \A v \in Resources : \A value, config : ~Invalid(config, v, value)
    BY DEF Invalid, Resources, Endpoints
  <2>3. \A v \in Override : ~Invalid(cfg, v, env[v])
    <3>1. Names(toMask) = {}
      BY <2>a DEF MaskInv, Masked, Names
    <3> QED BY <2>a, <2>1, <3>1 DEF MaskInv, Masked
  <2>4. \A v \in InForce \ Resources : env[v] = started[v]
    BY <2>a DEF MaskInv, EnvInv, Masked, Override, InForce
  <2>5. InForce \subseteq Variables /\ Variables = Override \cup InForce
    BY DEF Override, InForce
  <2> QED BY <2>2, <2>3, <2>4, <2>5
<1> QED BY <1>1, Invariance, PTL
=============================================================================

------------------------------ MODULE Startup ------------------------------
(***************************************************************************)
(* From the environment to the first approved command: StartupConfig, the  *)
(* sequence of main() and of the Controller constructor with every failure *)
(* it exits on, throws on or only logs, and the readers that are alive     *)
(* when the node spins.  A reader whose creation failed stays in the list  *)
(* and never delivers; a reader whose durability does not match its writer *)
(* never delivers either.                                                  *)
(***************************************************************************)
EXTENDS Integers, FiniteSets

CONSTANT MaxFaults  \* bound on the reader creations that fail

ASSUME StartupAssumption == MaxFaults \in Nat

VARIABLES suEnv,     \* environment and build facts, read once
          suPc,      \* the next step of startup, or how it ended
          suCfg,     \* StartupConfig, or Rejected
          suFaults,  \* ghost: reader creations that failed so far
          suReaders, \* topic -> "ok" or "dead", for the readers created
          suOut,     \* output surfaces: subset of {"approved", "legacy", "can"}
          suSeen,    \* topics that delivered a sample
          suDrives   \* a NORMAL decision has been published

suVars == <<suEnv, suPc, suCfg, suFaults, suReaders, suOut, suSeen, suDrives>>

-----------------------------------------------------------------------------
(* StartupConfig.  An unset variable is "unset"; the build defaults are *)
(* si/autoware, always and transient_local.                             *)

Rejected == [ok |-> FALSE, mode |-> "none", source |-> "none", legacy |-> "none",
             durability |-> "none"]

parseLegacyControlCmd(v) ==
  CASE v = "unset" -> "always" [] v \in {"always", "stop_only"} -> v [] OTHER -> "invalid"

parseOperationModeDurability(v) ==
  CASE v = "unset" -> "transient_local" [] v \in {"transient_local", "volatile"} -> v
    [] OTHER -> "invalid"

(* Mutant of parse: VP_CONTROL accepts any source. *)
ParseEach(mode, source) == mode \in {"si", "vp"} /\ source \in {"autoware", "vp"}

parse(mode, source) ==
  mode \in {"si", "vp"} /\ source \in {"autoware", "vp"} /\ (mode = "vp" => source = "vp")

fromValues(e) ==
  LET legacy == parseLegacyControlCmd(e.legacy)
      durability == parseOperationModeDurability(e.durability)
      default == e.mode = "unset" /\ e.source = "unset"
      mode == IF default THEN "si" ELSE e.mode
      source == IF default THEN "autoware" ELSE e.source
  IN IF "invalid" \in {legacy, durability} \/ ~parse(mode, source) THEN Rejected
     ELSE [ok |-> TRUE, mode |-> mode, source |-> source, legacy |-> legacy,
           durability |-> durability]

-----------------------------------------------------------------------------
(* Topics and outputs *)

Feedback == {"steering", "odometry", "acceleration", "operation_mode"}

(* The one candidate source the configuration selects. *)
SourceTopic(cfg) ==
  CASE cfg.mode = "vp" -> "driving_command"
    [] cfg.source = "vp" -> "driving_reference"
    [] OTHER -> "trajectory"

(* The readers in the order the constructor creates them. *)
ReaderOrder(cfg) ==
  IF cfg.mode = "si"
  THEN <<"steering", SourceTopic(cfg), "odometry", "acceleration", "operation_mode",
         "reenable", "heartbeat">>
  ELSE <<"steering", "odometry", "acceleration", "operation_mode", SourceTopic(cfg),
         "reenable", "heartbeat">>

output_mode_uses_dds(mode) == mode \in {"DDS_ONLY", "DDS_AND_CAN"}

output_mode_uses_can(mode) == mode \in {"CAN_ONLY", "DDS_AND_CAN"}

NoReader == [t \in {} |-> "ok"]

Goto(pc) == suPc' = pc

Quiet == UNCHANGED <<suEnv, suSeen, suDrives>>

-----------------------------------------------------------------------------
(* main() before the Controller *)

ReadConfig ==
  /\ suPc = "config"
  /\ suCfg' = fromValues(suEnv)
  /\ Goto(IF fromValues(suEnv).ok THEN "network" ELSE "exited")
  /\ Quiet /\ UNCHANGED <<suFaults, suReaders, suOut>>

(* configure_network: an interface that cannot be set up returns 1; a DHCP *)
(* lease that does not come within 10 s is only logged.  Only the UDP      *)
(* tunnel build exits on it.                                               *)
ConfigureNetwork(rc) ==
  /\ suPc = "network"
  /\ Goto(IF rc # 0 /\ suEnv.tunnel THEN "exited" ELSE "sntp")
  /\ Quiet /\ UNCHANGED <<suCfg, suFaults, suReaders, suOut>>

InitClock(ok) ==
  /\ suPc = "sntp"
  /\ Goto(IF ok THEN "dds" ELSE "exited")
  /\ Quiet /\ UNCHANGED <<suCfg, suFaults, suReaders, suOut>>

(* DDS: the domain and the participant; then the stack of the node thread, *)
(* the two followers and the timer.                                        *)
CreateNode(ok) ==
  /\ suPc = "dds"
  /\ Goto(IF ok THEN "readers" ELSE "exited")
  /\ Quiet /\ UNCHANGED <<suCfg, suFaults, suReaders, suOut>>

-----------------------------------------------------------------------------
(* The constructor's endpoints *)

Created == Cardinality(DOMAIN suReaders)

NextTopic == ReaderOrder(suCfg)[Created + 1]

(* create_subscription_dds returns a subscriber also when the topic or the *)
(* reader could not be created ("dead"); only an exception or a failed QoS *)
(* copy returns nullptr ("null"), and only the selected source checks it.  *)
CreateReader(result) ==
  /\ suPc = "readers" /\ Created < 7
  /\ result # "ok" => suFaults < MaxFaults
  /\ suFaults' = suFaults + IF result = "ok" THEN 0 ELSE 1
  /\ suReaders' = [t \in DOMAIN suReaders \cup {NextTopic} |->
                     IF t \in DOMAIN suReaders THEN suReaders[t]
                     ELSE IF result = "ok" THEN "ok" ELSE "dead"]
  /\ Goto(IF result = "null" /\ NextTopic = SourceTopic(suCfg) THEN "thrown" ELSE "readers")
  /\ Quiet /\ UNCHANGED <<suCfg, suOut>>

(* ~Node runs while the exception leaves the constructor: it cancels and   *)
(* joins main_thread_, which spin() has not set yet.  Whatever that does,  *)
(* the node never spins; when it returns, main() exits.                    *)
Unwind(ended) ==
  /\ suPc = "thrown"
  /\ Goto(ended)
  /\ Quiet /\ UNCHANGED <<suCfg, suFaults, suReaders, suOut>>

(* Publisher exits when its topic or writer cannot be created. *)
CreateWriters(ok) ==
  /\ suPc = "readers" /\ Created = 7
  /\ suOut' = IF ~ok THEN suOut
              ELSE {"approved"} \cup IF output_mode_uses_dds(suEnv.output) THEN {"legacy"} ELSE {}
  /\ Goto(IF ok THEN "can" ELSE "exited")
  /\ Quiet /\ UNCHANGED <<suCfg, suFaults, suReaders>>

(* Mutant of AfterCan: a CAN_ONLY build starts without its CAN output. *)
AfterCanAnyway(ok) == IF ok THEN "spin" ELSE "spin"

(* A CAN output that cannot be initialised ends a CAN_ONLY build and is *)
(* dropped in a DDS_AND_CAN build.                                      *)
AfterCan(ok) == IF ok \/ suEnv.output # "CAN_ONLY" THEN "spin" ELSE "exited"

InitCan(ok) ==
  /\ suPc = "can"
  /\ IF output_mode_uses_can(suEnv.output)
     THEN /\ suOut' = IF ok THEN suOut \cup {"can"} ELSE suOut
          /\ Goto(AfterCan(ok))
     ELSE /\ Goto("spin") /\ UNCHANGED suOut
  /\ Quiet /\ UNCHANGED <<suCfg, suFaults, suReaders>>

Spin(ok) ==
  /\ suPc = "spin"
  /\ Goto(IF ok THEN "live" ELSE "exited")
  /\ Quiet /\ UNCHANGED <<suCfg, suFaults, suReaders, suOut>>

-----------------------------------------------------------------------------
(* The running node *)

(* DDS matches a reader with a writer that offers at least the durability  *)
(* it requests.  The operation mode is written on change only: a volatile  *)
(* reader does not get a state written before it joined.                   *)
OpModeArrives ==
  /\ suCfg.durability = "transient_local" => suEnv.bridge = "transient_local"
  /\ suCfg.durability = "volatile" => suEnv.changes

Delivers(t) ==
  t \in DOMAIN suReaders /\ suReaders[t] = "ok" /\ (t = "operation_mode" => OpModeArrives)

(* Every source that is heard and not silent delivers a sample. *)
Samples(silent) ==
  /\ suPc = "live"
  /\ suSeen' = suSeen \cup {t \in DOMAIN suReaders : Delivers(t) /\ t # silent}
  /\ UNCHANGED <<suEnv, suPc, suCfg, suFaults, suReaders, suOut, suDrives>>

(* Mutant of Ready: feedback that never came counts as fresh. *)
SourceReady == SourceTopic(suCfg) \in suSeen

(* Mutant of Ready: every reader must have delivered, the operator's too. *)
AllReady == DOMAIN suReaders \subseteq suSeen

(* processData() for the follower; has_vp_cmd_ and feedbackSeen() for the *)
(* VisionPilot command.                                                   *)
Ready == Feedback \cup {SourceTopic(suCfg)} \subseteq suSeen

(* A control cycle that finds its inputs approves the candidate. *)
Cycle ==
  /\ suPc = "live" /\ Ready
  /\ suDrives' = TRUE
  /\ UNCHANGED <<suEnv, suPc, suCfg, suFaults, suReaders, suOut, suSeen>>

-----------------------------------------------------------------------------

Environments ==
  [mode : {"unset", "si", "vp", "other"}, source : {"unset", "autoware", "vp", "other"},
   legacy : {"unset", "always", "stop_only", "other"},
   durability : {"unset", "transient_local", "volatile", "other"},
   output : {"DDS_ONLY", "CAN_ONLY", "DDS_AND_CAN"}, tunnel : BOOLEAN,
   bridge : {"transient_local", "volatile"}, changes : BOOLEAN]

StartupInit ==
  /\ suEnv \in Environments /\ (suEnv.tunnel => suEnv.output # "DDS_ONLY")
  /\ suPc = "config" /\ suCfg = Rejected
  /\ suFaults = 0 /\ suReaders = NoReader /\ suOut = {} /\ suSeen = {} /\ suDrives = FALSE

StartupStep ==
  \/ ReadConfig
  \/ \E rc \in 0 .. 1 : ConfigureNetwork(rc)
  \/ \E ok \in BOOLEAN : InitClock(ok) \/ CreateNode(ok) \/ CreateWriters(ok) \/ InitCan(ok) \/ Spin(ok)
  \/ \E r \in {"ok", "dead", "null"} : CreateReader(r)
  \/ \E e \in {"exited", "undefined"} : Unwind(e)

StartupNext ==
  \/ StartupStep
  \/ \E s \in Feedback \cup {SourceTopic(suCfg), "none"} : Samples(s)
  \/ Cycle

StartupSpec == StartupInit /\ [][StartupNext]_suVars

(* The sources publish again and again, and the node's thread runs. *)
StartupFairness ==
  /\ WF_suVars(Samples("none"))
  /\ WF_suVars(Cycle)

-----------------------------------------------------------------------------
(* Properties *)

(* What an operator may ask for, written as a table: the six selections    *)
(* that start, and what they start.                                        *)
Selections ==
  {<<"unset", "unset", "si", "autoware">>, <<"si", "autoware", "si", "autoware">>,
   <<"si", "vp", "si", "vp">>, <<"vp", "vp", "vp", "vp">>}

(* The selection is what was asked for and never a fallback: a half-set,   *)
(* unknown or contradictory environment starts nothing, and every accepted *)
(* one starts exactly the mode, source and reader durability of the table  *)
(* (StartupConfig::fromValues and the readers the constructor creates).    *)
NeverFallsBack ==
  suPc \notin {"config", "exited"} =>
    /\ <<suEnv.mode, suEnv.source, suCfg.mode, suCfg.source>> \in Selections
    /\ suEnv.legacy \in {"unset", suCfg.legacy}
    /\ suEnv.durability \in {"unset", suCfg.durability}
    /\ {"trajectory", "driving_reference", "driving_command"} \cap DOMAIN suReaders
         \subseteq {SourceTopic(suCfg)}

(* A live node can act: the approved topic is written, and the build's own *)
(* actuator surface exists (CAN_ONLY without CAN never becomes live).      *)
LiveCanAct ==
  suPc = "live" =>
    /\ "approved" \in suOut
    /\ output_mode_uses_dds(suEnv.output) => "legacy" \in suOut
    /\ suEnv.output = "CAN_ONLY" => "can" \in suOut

(* A reader that was never created, or whose durability its writer does    *)
(* not offer, is silent for ever; the node then holds for ever instead of  *)
(* driving without that source (processData, feedbackSeen).                *)
NeverDrivesDeaf ==
  suDrives => \A t \in Feedback \cup {SourceTopic(suCfg)} : Delivers(t)

(* A live node whose five inputs are heard drives, whichever of its other *)
(* readers failed: nothing it can do without holds it back.               *)
DrivesWhenHeard ==
  (suPc = "live" /\ \A t \in Feedback \cup {SourceTopic(suCfg)} : Delivers(t)) ~> suDrives

(* What is started is what was asked for, and it can do what it was asked. *)
StartsAsAsked == NeverFallsBack /\ LiveCanAct /\ NeverDrivesDeaf
=============================================================================

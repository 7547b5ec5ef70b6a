----------------------------- MODULE MCPrograms ------------------------------
(***************************************************************************)
(* Small instances of the driver's probe, the example kernel modules and   *)
(* the user programs.  They do not interact: a behaviour is one of one     *)
(* component, chosen in the initial state; the others stay in theirs.      *)
(***************************************************************************)
EXTENDS SkelProbe, ConfigfsExample, Connector, GetDelays, AmtClient,
        Freefall, Dslm, TscTests, TxTimestamp, Timestamping, TestPtp

VARIABLE component

MCAnswers ==
  [size : {0, 10, 28, 85, 129}, status : {0, 2, 16384}, length : {0, 16, 73, 117},
   count : {0, 1, 2}, ours : BOOLEAN, strings : BOOLEAN]

MCRequests ==
  {{"caps", "adjfreq", "settime1", "pct_offset"},
   {"gettime", "adjtime", "settime2", "pct_offset"},
   {"settime3", "extts", "pps"}, {"oneshot", "extts", "pin", "perout"},
   {"periodic", "list_pins"}}

MCConfig == [proto |-> "TCP", ipv4 |-> TRUE, ipv6 |-> TRUE, addrs |-> <<"inet">>]

Components == {"probe", "configfs", "connector", "getdelays", "amt", "freefall", "dslm",
               "tsc", "txtimestamp", "timestamping", "testptp"}

all_vars == <<component, probe_vars, cfs_vars, cn_vars, gd_vars, amt_vars, ff_vars,
              ds_vars, tsc_vars, tx_vars, ts_vars, ptp_vars>>

(* Components that do not run have one initial state.                      *)
ProgramsInit ==
  /\ component \in Components
  /\ ProbeInit /\ ConfigfsInit /\ ConnectorInit /\ AmtInit /\ TscInit
  /\ GdInit /\ (component # "getdelays" => opt = CHOOSE o \in Options : TRUE)
  /\ FfInit /\ (component # "freefall" => ~noled)
  /\ DsInit /\ (component # "dslm" => disk = "255")
  /\ TxInit /\ (component # "txtimestamp" => ~late /\ cfg = MCConfig)
  /\ TsInit /\ (component # "timestamping" => clock = 0 /\ opts = {})
  /\ PtpInit /\ (component # "testptp" =>
                   asked = {"periodic", "list_pins"} /\ sys = 3 /\ phc = 0)

Keep(c, v) == IF component = c THEN TRUE ELSE UNCHANGED v

(* A step of component c, the others unchanged.                            *)
Step(c, A) ==
  /\ component = c /\ A /\ UNCHANGED component
  /\ Keep("probe", probe_vars) /\ Keep("configfs", cfs_vars) /\ Keep("connector", cn_vars)
  /\ Keep("getdelays", gd_vars) /\ Keep("amt", amt_vars) /\ Keep("freefall", ff_vars)
  /\ Keep("dslm", ds_vars) /\ Keep("tsc", tsc_vars) /\ Keep("txtimestamp", tx_vars)
  /\ Keep("timestamping", ts_vars) /\ Keep("testptp", ptp_vars)

ProgramsNext ==
  \/ Step("probe", ProbeNext)
  \/ Step("configfs", ConfigfsNext)
  \/ Step("connector", ConnectorNext)
  \/ Step("getdelays", GdNext)
  \/ Step("amt", AmtNext)
  \/ Step("freefall", FfNext)
  \/ Step("dslm", DsNext)
  \/ Step("tsc", TscNext)
  \/ Step("txtimestamp", TxNext)
  \/ Step("timestamping", TsNext)
  \/ Step("testptp", PtpNext)

(* getdelays runs, and the command it forked comes to its end;             *)
(* timestamping runs too.                                                  *)
ProgramsSpec ==
  /\ ProgramsInit /\ [][ProgramsNext]_all_vars
  /\ WF_all_vars(Step("getdelays", Main)) /\ WF_all_vars(Step("getdelays", ChildExit))
  /\ WF_all_vars(Step("timestamping", Iterate \/ Select))
=============================================================================

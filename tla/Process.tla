-------------------------------- MODULE Process --------------------------------
(***************************************************************************)
(* The two things main does beside its capture: it reads its configuration *)
(* before anything runs, and it starts and stops the REST server.  They    *)
(* share no state, so a behaviour runs one of them, chosen at the start,   *)
(* while the variables of the other one stand still.                       *)
(***************************************************************************)
EXTENDS Shutdown

CONSTANTS
    Parts,                      \* what the behaviours run: "settings", "running" or both
    Values, Numbers, MaxLines   \* of Configuration

VARIABLES part, given, dotenv, listed, env, next, config, source

Settings == INSTANCE Configuration

ASSUME SettingsAssumption == Settings!ConfigurationAssumption

settings == <<given, dotenv, listed, env, next, config, source>>
both     == <<part, vars, settings>>

SettingsInit ==
    /\ part = "settings" /\ Settings!Init
    /\ Init /\ ~live

RunningInit ==
    /\ part = "running" /\ Init
    /\ given = <<>> /\ dotenv = <<>> /\ listed = <<>> /\ env = <<>>
    /\ next = 1 /\ config = <<>> /\ source = <<>>

ReadSettings == part = "settings" /\ Settings!Next /\ UNCHANGED <<part, vars>>

SettingsRead == part = "settings" /\ source.mode # "" /\ UNCHANGED both

Run == part = "running" /\ Next /\ UNCHANGED <<part, settings>>

ProcessInit == part \in Parts /\ (SettingsInit \/ RunningInit)

ProcessNext == ReadSettings \/ SettingsRead \/ Run

ProcessSpec == ProcessInit /\ [][ProcessNext]_both /\ Fairness
-----------------------------------------------------------------------------
\* What main captures from is what the environment, the first line of .env and the
\* defaults say, in that order, and a source that someone names is the one it takes
\* (Config::from_env and the choice of the mode in main).
SourceAsConfigured ==
    part = "settings" =>
       Settings!TypeOK /\ Settings!PrecedenceKept /\ Settings!NamedSourceTaken
=============================================================================

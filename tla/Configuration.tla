---------------------------- MODULE Configuration ----------------------------
(***************************************************************************)
(* Config::from_env with load_dotenv, and what main makes of it before it  *)
(* opens anything: live capture, a stable file, or no source at all.  The  *)
(* variables of the environment come first, then the lines of .env, then   *)
(* the defaults.  A variable may be set and empty, which is not unset.     *)
(***************************************************************************)
EXTENDS Integers, Sequences, SequencesExt

CONSTANTS
    Values,         \* what a variable may be set to
    Numbers,        \* the numbers that some of them begin with, as a function
    MaxLines        \* bound: lines of .env

Unset == "(unset)"

ConfigurationAssumption ==
    /\ Unset \notin Values /\ MaxLines \in Nat
    /\ Unset \notin {Numbers[v] : v \in DOMAIN Numbers} \union DOMAIN Numbers

VARIABLES
    given,          \* the environment the program is started in
    dotenv,         \* the lines of .env; none if there is no file
    listed,         \* files in /samples/pcaplist
    env,            \* the environment of the process
    next,           \* the next line of .env to read
    config,         \* what was read from the environment
    source          \* what main captures from: mode and name

vars == <<given, dotenv, listed, env, next, config, source>>

\* The variables looked at.
Keys == {"PCAP_FILE", "INTERFACE", "API_PORT"}
Pair == [kind : {"pair"}, key : Keys, value : Values]

Default(key) ==
    CASE key = "PCAP_FILE" -> ""
      [] key = "INTERFACE" -> "eth0"
      [] key = "API_PORT"  -> "8080"

Settings ==
    [Keys -> Values \union {"", "eth0", "8080"} \union {Numbers[v] : v \in DOMAIN Numbers}]

TypeOK ==
    /\ given \in [Keys -> Values \union {Unset}] /\ env \in [Keys -> Values \union {Unset}]
    /\ next \in 1..Len(dotenv) + 1
    /\ config \in Settings \union {<<>>}
    /\ source \in [mode : {"", "live", "stable", "idle", "refused"},
                   name : Values \union {"", "eth0", "first.pcap"}]

Init ==
    /\ given \in [Keys -> Values \union {Unset}]
    /\ dotenv \in BoundedSeq(Pair \union {[kind |-> "comment"]}, MaxLines)
    /\ listed \in {<<>>, <<"first.pcap", "second.pcap">>}
    /\ env = given
    /\ next = 1
    /\ config = <<>>
    /\ source = [mode |-> "", name |-> ""]

\* Defect: a line of the file replaces what is set.
ReadLineOver ==
    /\ next <= Len(dotenv)
    /\ env' = IF dotenv[next].kind = "pair"
                THEN [env EXCEPT ![dotenv[next].key] = dotenv[next].value] ELSE env
    /\ next' = next + 1
    /\ UNCHANGED <<given, dotenv, listed, config, source>>

\* A line of .env sets its variable unless it is set, if only by a line before.
\* Comments and lines without an equals sign are skipped.
ReadLine ==
    /\ next <= Len(dotenv)
    /\ env' = IF dotenv[next].kind = "pair" /\ env[dotenv[next].key] = Unset
                THEN [env EXCEPT ![dotenv[next].key] = dotenv[next].value] ELSE env
    /\ next' = next + 1
    /\ UNCHANGED <<given, dotenv, listed, config, source>>

\* std::stoi takes the digits a value begins with, and throws if there are none or
\* too many for an int.
Stoi(v) == IF v \in DOMAIN Numbers THEN Numbers[v] ELSE Unset

GetenvOr(key) == IF env[key] = Unset THEN Default(key) ELSE env[key]

GetenvInt(key) ==
    IF env[key] = Unset \/ Stoi(env[key]) = Unset THEN Default(key) ELSE Stoi(env[key])

FromEnv ==
    /\ next > Len(dotenv) /\ config = <<>>
    /\ config' = [k \in Keys |-> IF k = "API_PORT" THEN GetenvInt(k) ELSE GetenvOr(k)]
    /\ UNCHANGED <<given, dotenv, listed, env, next, source>>

\* Once more whether there is a file, and a search of the directory.
StablePcap == IF config["PCAP_FILE"] # "" THEN config["PCAP_FILE"]
              ELSE IF listed # <<>> THEN Head(listed) ELSE ""

\* The mode is live if there is no file, and ends the program if there is no interface
\* either.
Choose ==
    /\ config # <<>> /\ source.mode = ""
    /\ LET live == config["PCAP_FILE"] = ""
           name == IF live THEN config["INTERFACE"] ELSE config["PCAP_FILE"]
       IN  source' = IF name = "" THEN [mode |-> "refused", name |-> ""]
                     ELSE IF live THEN [mode |-> "live", name |-> name]
                     ELSE IF StablePcap = "" THEN [mode |-> "idle", name |-> ""]
                     ELSE [mode |-> "stable", name |-> StablePcap]
    /\ UNCHANGED <<given, dotenv, listed, env, next, config>>

Next == ReadLine \/ FromEnv \/ Choose

Spec == Init /\ [][Next]_vars
-----------------------------------------------------------------------------
(* Properties.                                                             *)

\* The first line that sets a key, or none.
FirstLine(key) ==
    LET hits == {i \in DOMAIN dotenv : dotenv[i].kind = "pair" /\ dotenv[i].key = key}
    IN  IF hits = {} THEN Unset ELSE dotenv[Min(hits)].value

Wanted(key) == IF given[key] # Unset THEN given[key] ELSE FirstLine(key)

\* The environment beats the file, the first line of a key beats the later ones, and a
\* key that neither sets, or a number that is none, has its default.
PrecedenceKept ==
    config # <<>> =>
       \A k \in Keys :
          config[k] = IF k = "API_PORT"
                        THEN IF Stoi(Wanted(k)) = Unset THEN Default(k) ELSE Stoi(Wanted(k))
                      ELSE IF Wanted(k) = Unset THEN Default(k) ELSE Wanted(k)

\* A source that someone names is the one that is captured from; an interface only if
\* no file is named.
NamedSourceTaken ==
    source.mode # "" =>
       /\ source.mode = "stable" => source.name = Wanted("PCAP_FILE")
       /\ Wanted("PCAP_FILE") \notin {Unset, ""} => source.mode = "stable"
       /\ source.mode = "refused" <=> Wanted("PCAP_FILE") \in {Unset, ""} /\ Wanted("INTERFACE") = ""

\* Without PCAP_FILE the first file of the directory is the stable one.
ListedFileTaken ==
    source.mode # "" /\ given["PCAP_FILE"] = Unset /\ FirstLine("PCAP_FILE") = Unset
       /\ listed # <<>>
    => source.name = Head(listed)
=============================================================================

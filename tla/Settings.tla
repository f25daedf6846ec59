-------------------------------- MODULE Settings --------------------------------
(***************************************************************************)
(* What the bot is started with: internal/app/config.go over the process   *)
(* environment and the .env file (internal/envparser/parser.go), as        *)
(* operators.  Of the settings those are kept that are numbers: the rest   *)
(* are strings and booleans that are taken as they are.                    *)
(*                                                                         *)
(* Integers and durations have 64 bits in the code; here they have Width,  *)
(* and a setting's unit, a second, a minute or a day, is Unit of them.     *)
(***************************************************************************)
EXTENDS Integers, Sequences

CONSTANTS
    Keys,               \* settings that are numbers
    Required,           \* those without a default: OWNER_ID
    Unit,               \* what the code multiplies each by, 1 for plain numbers
    Default,            \* values of the settings that are not given
    Width,              \* bits of an integer
    Unset, Blank, Junk  \* values: not there, only spaces, not a number

Half == 2 ^ (Width - 1)
Raw  == (-Half..(Half - 1)) \cup {Unset, Blank, Junk}

ASSUME WidthAssumption   == Width \in Nat \ {0}
ASSUME KeysAssumption    == Required \subseteq Keys /\ Unit \in [Keys -> Nat \ {0}]
ASSUME DefaultAssumption == Default \in [Keys -> 1..(Half - 1)]
ASSUME ValueAssumption   == /\ {Unset, Blank, Junk} \cap (-Half..(Half - 1)) = {}
                            /\ Unset # Blank /\ Unset # Junk /\ Blank # Junk

\* A value a setting cannot have stands for an error.
Error == 0

\* Two's complement multiplication, as time.Duration(value) * time.Second.
Wrap(n) == ((n + Half) % (2 * Half)) - Half

--------------------------------------------------------------------------------
\* Lines of a .env file; one without "=" or without a key is malformed.  What
\* quotes and comments do to a value is left out.
Entry     == [key : Keys, value : Raw \ {Unset}]
Malformed == [key |-> "", value |-> Junk]

LoadDotEnvFails(file) == \E i \in DOMAIN file : file[i] = Malformed

\* Of several lines for a key the last one counts.
FileValue(file, k) ==
    LET lines == {i \in DOMAIN file : file[i].key = k}
    IN  IF lines = {} THEN Unset
        ELSE file[CHOOSE i \in lines : \A j \in lines : j <= i].value

\* Slip: a blank variable of the process does not count as set.
FirstGiven(env, file, k) ==
    IF env[k] \notin {Unset, Blank} THEN env[k] ELSE FileValue(file, k)

\* A variable of the process, even a blank one, hides the line of the file.
Lookup(env, file, k) == IF env[k] # Unset THEN env[k] ELSE FileValue(file, k)

getPositiveInt(raw, fallback) ==
    CASE raw \in {Unset, Blank} -> fallback
      [] raw = Junk             -> Error
      [] OTHER                  -> IF raw > 0 THEN raw ELSE Error

Setting(env, file, k) ==
    getPositiveInt(Lookup(env, file, k), IF k \in Required THEN Error ELSE Default[k])

\* LoadConfigFromEnv ends at the first setting that is in error.
LoadFails(env, file) ==
    LoadDotEnvFails(file) \/ \E k \in Keys : Setting(env, file, k) = Error

\* getSeconds and getMinutes multiply after the check.
LoadConfig(env, file) == [k \in Keys |-> Wrap(Setting(env, file, k) * Unit[k])]
================================================================================

------------------------------ MODULE Instants ------------------------------
(***************************************************************************)
(* Instants as the protobuf messages of the package carry them: signed     *)
(* counts of nanoseconds since the Unix epoch, with 0 for the zero time.   *)
(* An instant is a number, 0 the zero time; Range counts exist, and an     *)
(* instant whose count does not fit wraps.                                 *)
(***************************************************************************)
EXTENDS Integers

CONSTANTS
    UnixEpoch,   \* the instant whose nanosecond count is 0
    Range        \* 2^w: how many nanosecond counts there are

ASSUME InstantsAssumption ==
    UnixEpoch \in Nat \ {0} /\ Range \in Nat \ {0} /\ Range % 2 = 0

(* A count of nanoseconds as a signed integer of the build's width.        *)
Wrap(n) == ((n + Range \div 2) % Range) - Range \div 2

unixNanoOrZero(t) == IF t = 0 THEN 0 ELSE Wrap(t - UnixEpoch)

timeFromUnixNano(n) == IF n = 0 THEN 0 ELSE UnixEpoch + n

(* The instants whose count is neither wrapped nor negative.               *)
Encodable(t) == t = 0 \/ (UnixEpoch <= t /\ t < UnixEpoch + Range \div 2)
=============================================================================

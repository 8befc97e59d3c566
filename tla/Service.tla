------------------------------ MODULE Service ------------------------------
(***************************************************************************)
(* What the firmware promises the program on the core: a request is served  *)
(* by one device, at most once, and then answered with what that device     *)
(* did; a device that is not there is answered with zero.  The core may     *)
(* lose its power at any time, and nothing is served or answered after      *)
(* that.  Threads, signals, mutexes and the JTAG port do not occur here.    *)
(***************************************************************************)
CONSTANTS
    Types,         \* types of requests
    Device(_),     \* the device that serves a type, "none" for one that is never there
    NoEffect       \* no device has done anything

VARIABLES
    request,   \* the request the core waits for: type and argument
    effect,    \* what a device did for it
    answer,    \* the return value, in the RAM
    ready,     \* the answer is there for the core to take
    on         \* the core has power

vars == <<request, effect, answer, ready, on>>

Pending == on /\ request.type \in Types /\ ~ready

(* Devices that get the argument of the request, as it is. *)
Outward == {"terminal", "net_out", "sensor"}

Init ==
    /\ request.type \notin Types
    /\ effect = NoEffect /\ ready = FALSE /\ on \in BOOLEAN

(* The core asks, or is started, or takes its answer; a request stays the     *)
(* same until it is answered.                                                 *)
Ask ==
    /\ on /\ request.type \notin Types /\ request'.type \in Types \cup {"none"}
    /\ UNCHANGED <<effect, ready, on>>

Take ==
    /\ on /\ ready
    /\ ready' = FALSE /\ effect' = NoEffect
    /\ request'.type = "none"
    /\ UNCHANGED on

Perform ==
    /\ Pending /\ effect = NoEffect
    /\ effect'.dev = Device(request.type)
    /\ effect'.dev \in Outward => effect'.what = request.arg
    /\ UNCHANGED <<request, ready, on>>

(* Return values are written before the answer is there. *)
Write ==
    /\ Pending /\ answer' # answer
    /\ UNCHANGED <<request, effect, ready, on>>

Answer ==
    /\ Pending
    /\ effect = NoEffect => answer = "zero"
    /\ effect # NoEffect /\ effect.dev \in {"terminal", "keyboard", "net_in"} => answer = effect.what
    /\ ready' = TRUE
    /\ UNCHANGED <<request, effect, answer, on>>

PowerOff ==
    /\ on /\ on' = FALSE
    /\ UNCHANGED <<request, effect, ready>>

Next == Ask \/ Take \/ Perform \/ Write \/ Answer \/ PowerOff

Spec == Init /\ [][Next]_vars

=============================================================================

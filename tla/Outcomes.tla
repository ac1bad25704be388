------------------------------ MODULE Outcomes ------------------------------
(***************************************************************************)
(* What the calls of the library packages return besides values.           *)
(***************************************************************************)
CONSTANTS
    None,           \* an Option without a value
    Failed,         \* an error, or a panic: the message of the caller fails
    MaxAmount       \* the largest u128, beyond which an addition panics

=============================================================================

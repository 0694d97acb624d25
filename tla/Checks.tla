-------------------------------- MODULE Checks --------------------------------
(***************************************************************************)
(* The shape every parser and entry point of Dhow has: a sequence of checks *)
(* with an early return at the first that fails.                            *)
(***************************************************************************)
EXTENDS Naturals, Sequences

\* A check: what it looks for, and the error returned when it finds it.
When(cond, error) == [cond |-> cond, error |-> error]

\* A check that passes on the error of a part, Rust's `?`.
Pass(error) == When(error # "Ok", error)

\* The checks of a sequence that find something.
Failing(checks) == {i \in DOMAIN checks : checks[i].cond}

\* The error of the first check that finds something, or ok.
FirstError(checks, ok) ==
    IF Failing(checks) = {} THEN ok
    ELSE checks[CHOOSE i \in Failing(checks) : \A j \in Failing(checks) : i <= j].error
=============================================================================

------------------------------ MODULE MCDispatch ------------------------------
(* Small instances of Dispatch for TLC. *)
EXTENDS Dispatch

\* Every border of the documented classes of answers, and each exception.
MCStatuses == {NoResponse, 199, 200, 299, 302, 399, 400, 408, 425, 429, 499, 500, 599}

Asks(url, signing, secret) == [url |-> url, signing |-> signing, secret |-> secret]

\* A new URL; signing on, with a new secret or as it comes; off; a rotation with
\* and without a new URL.
MCInputs == {Asks(TRUE, "same", FALSE), Asks(FALSE, "on", FALSE), Asks(TRUE, "on", TRUE),
             Asks(FALSE, "off", FALSE), Asks(FALSE, "same", TRUE), Asks(TRUE, "same", TRUE)}
==============================================================================

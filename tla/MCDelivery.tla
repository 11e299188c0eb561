----------------------------- MODULE MCDelivery -----------------------------
(* Delivery for TLC: the caller installs the app, the others uninstall it. *)
EXTENDS Delivery

CallersInstall ==
    {[o \in Operations |-> IF o \in Callers THEN "install" ELSE "uninstall"]}
=============================================================================

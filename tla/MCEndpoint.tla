----------------------------- MODULE MCEndpoint ------------------------------
(* Small instances of what happens to a file of an endpoint: the USB pipeline
   with the backend's threats and alerts, the integrity monitor, and the
   quarantine.  They share no state, so a behaviour of the run is a behaviour
   of one of them, chosen in the initial state.                              *)
EXTENDS UsbPipeline, FileWatch, QuarantineVault, TLC

CONSTANTS r1, r2, l1, d1, d2, f1, f2, f3, e1, m1, m2

VARIABLE part   \* the component that runs

HoldsOf == (d1 :> {f1, f2}) @@ (d2 :> {f2})
RulesOf == (f1 :> {"double_extension"}) @@ (f2 :> {"double_extension"}) @@ (e1 :> {"beaconing"})
OneByte == [d \in Data \cup {NoFile} |-> IF d = NoFile THEN 0 ELSE 1]
Twins   == (f1 :> "x") @@ (f2 :> "x") @@ (f3 :> "y")

\* Requests are only compared with each other
Interchangeable == Permutations(Requests)

\* What does not run starts empty
Empty ==
    /\ part # "usb" => \A l \in Letters : mounted[l] = NoDrive
    /\ part # "watch" => ignored = {} /\ ~watchdog /\ \A p \in Paths : ~Exists(disk, p)

Init ==
    /\ part \in {"usb", "watch", "vault"}
    /\ UsbInit /\ WatchInit /\ VaultInit /\ Empty

Next ==
    /\ UNCHANGED part
    /\ \/ part = "usb"   /\ UsbNext   /\ UNCHANGED <<watchVars, vaultVars>>
       \/ part = "watch" /\ WatchNext /\ UNCHANGED <<alertVars, usbVars, vaultVars>>
       \/ part = "vault" /\ VaultNext /\ UNCHANGED <<alertVars, usbVars, watchVars>>

Spec == Init /\ [][Next]_<<part, alertVars, usbVars, watchVars, vaultVars>>

TypeOK == UsbTypeOK /\ WatchTypeOK /\ VaultTypeOK
=============================================================================

------------------------------- MODULE MCCss -------------------------------
(***************************************************************************)
(* Instances of Css with a console and a disk.                             *)
(***************************************************************************)
EXTENDS Css
CONSTANTS console, disk

Call(driver, dev) == [driver |-> driver, dev |-> dev]
DiskCalls == {Call("ReadDisk", disk), Call("Probe", disk)}

AllCalls == DiskCalls \cup {Call("ReadTerm", console)}
=============================================================================

----------------------------- MODULE AtomicSwap -----------------------------
(***************************************************************************)
(* What a player may rely on when mods are installed, updated, enabled or  *)
(* removed: the set of files in a content folder changes in one step, from *)
(* the files of before to the files the request asked for, or it does not  *)
(* change at all - whatever fails and whenever the app is killed.          *)
(*                                                                         *)
(* `edits` counts the changes a person makes to single files, so that a    *)
(* step of the installer can never pass for one of them.                   *)
(***************************************************************************)
EXTENDS Naturals

CONSTANTS
    Names,      \* file names of the folder
    Data,       \* file contents
    None        \* "there is no such file"

VARIABLES
    mods,       \* [Names -> Data \cup {None}]: the files the player has
    request,    \* the swap being carried out, or NoRequest
    edits       \* number of changes made by hand

vars == <<mods, request, edits>>

Folder == [Names -> Data \cup {None}]

NoFiles == [n \in Names |-> None]

(* A request replaces files, known by name and contents, by `targets`.     *)
Request == [replaces : Folder, targets : Folder]

NoRequest == [replaces |-> NoFiles, targets |-> NoFiles]

Replaced(r) == {n \in Names : r.replaces[n] # None}

Asked(r) == {n \in Names : r.targets[n] # None}

(* The files to replace are still the ones the request was made from, and  *)
(* no other file is overwritten.                                           *)
Fits(m, r) ==
    /\ \A n \in Replaced(r) : m[n] = r.replaces[n]
    /\ \A n \in Asked(r) \ Replaced(r) : m[n] = None

Swapped(m, r) ==
    [n \in Names |-> IF n \in Asked(r) THEN r.targets[n]
                     ELSE IF n \in Replaced(r) THEN None ELSE m[n]]

Init ==
    /\ mods \in Folder
    /\ request = NoRequest
    /\ edits = 0

Begin ==
    /\ request = NoRequest
    /\ request' \in Request
    /\ Asked(request') # {}
    /\ Fits(mods, request')
    /\ UNCHANGED <<mods, edits>>

Apply ==
    /\ request # NoRequest
    /\ mods' = Swapped(mods, request)
    /\ request' = NoRequest
    /\ UNCHANGED edits

Abort ==
    /\ request # NoRequest
    /\ request' = NoRequest
    /\ UNCHANGED <<mods, edits>>

Edit ==
    /\ request = NoRequest
    /\ mods' \in Folder
    /\ edits' = edits + 1
    /\ UNCHANGED request

Next == Begin \/ Apply \/ Abort \/ Edit

Spec == Init /\ [][Next]_vars
=============================================================================

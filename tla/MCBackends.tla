----------------------------- MODULE MCBackends -----------------------------
(***************************************************************************)
(* Chisel builds of one repository: the same image twice, an image of      *)
(* another release that pins a chisel its builder image does not ship, and *)
(* one that uses no cache. A chisel and a nix build whose parent has a     *)
(* merged /usr, so that bin and sbin are links, and a nix store with its   *)
(* database; a chisel build whose static files, and a nix build whose      *)
(* output, cannot be copied; a build for a platform chisel has no tool     *)
(* for.                                                                    *)
(***************************************************************************)
EXTENDS Backends

Link(n) == [link |-> n]
NoLayer == << >>
Parent == [bin |-> Link("usrbin"), sbin |-> Link("usrbin"),
           usrbin |-> [sh |-> "parent", ls |-> "parent"],
           nixstore |-> [glibc |-> "parent"], nix |-> [db |-> "parent"]]
Output == [bin |-> [ls |-> "output", cat |-> "output"],
           sbin |-> Link("usrsbin"), usrsbin |-> [init |-> "output"],
           lib |-> Link("hello")]
Builder == [hello |-> [libhello |-> "output"]]
Static == [usrbin |-> [cat |-> "static"]]
Closure == [nixstore |-> [hello |-> "closure"], nix |-> [db |-> "closure"]]

Chiselled == [backend |-> "chisel", repo |-> "canonical", ref |-> "24.04", cache |-> TRUE,
              platform |-> "amd64", pin |-> "none", shipped |-> "1.5",
              parent |-> [usrbin |-> [sh |-> "parent"]],
              output |-> [usrbin |-> [sh |-> "output"]], builder |-> NoLayer,
              static |-> NoLayer, closure |-> NoLayer,
              env |-> [PATH |-> "own"], parentEnv |-> [PATH |-> "parent", LANG |-> "parent"]]

Uncached == [Chiselled EXCEPT !.cache = FALSE, !.shipped = "none"]

MergedUsr == [Uncached EXCEPT !.parent = Parent, !.output = Output, !.builder = Builder,
                              !.static = Static]

\* The static files of a flake are left out of its image.
Flake == [MergedUsr EXCEPT !.backend = "nix", !.closure = Closure]

TheContexts ==
    [first |-> Chiselled,
     again |-> Chiselled,
     other |-> [Chiselled EXCEPT !.ref = "22.04", !.pin = "1.4", !.parent = NoLayer],
     uncached |-> Uncached,
     merged |-> MergedUsr,
     clash |-> [MergedUsr EXCEPT !.static = [bin |-> [sh |-> "static"]]],
     flake |-> Flake,
     dangling |-> [Flake EXCEPT !.builder = NoLayer],
     i386 |-> [Chiselled EXCEPT !.platform = "386"]]
TheSessions == {{"first", "again"}, {"first", "other"}, {"again", "uncached"}, {"merged"},
                {"clash"}, {"flake"}, {"dangling"}, {"i386"}}
=============================================================================

----------------------------- MODULE RpakReader -----------------------------
(***************************************************************************)
(* One archive of a mod is inspected, as discovery does with each of them. *)
(***************************************************************************)
EXTENDS RpakFile

CONSTANT PakFiles        \* the archives a mod may hold

\* What the header claims are unsigned integers.
ASSUME PakFilesAssumption ==
    \A a \in PakFiles :
        /\ a.size \in Nat
        /\ {a.paths, a.slabs, a.pointers, a.uses, a.dependents} \subseteq Nat
        /\ a.pages \in Seq(Nat)
        /\ a.assets \in Seq([type : STRING, page : Nat, offset : Nat, head : Nat, marker : STRING])

VARIABLES
    archive,      \* the archive at hand
    verdict       \* "unread", "refused" or "loadable"

rpakFileVars == <<archive, verdict>>

RpakFileInit == archive \in PakFiles /\ verdict = "unread"

Inspect == /\ verdict = "unread"
           /\ verdict' = IF Loadable(archive) THEN "loadable" ELSE "refused"
           /\ UNCHANGED archive

RpakFileNext == Inspect

RpakFileSpec == RpakFileInit /\ [][RpakFileNext]_rpakFileVars

RpakFileTypeOK == archive.size \in Nat /\ verdict \in {"unread", "refused", "loadable"}

-----------------------------------------------------------------------------
\* Where things are if every table and page is as long as the archive says.
TrueOffsets(a) ==
    LET tables == HeaderSize + a.paths + a.slabs * SlabRow + Len(a.pages) * PageRow
                  + a.pointers * PointerRow + Len(a.assets) * AssetRow + a.uses * PointerRow
                  + a.dependents * DependentRow
        at[n \in 0..Len(a.pages)] == IF n = 0 THEN tables ELSE at[n - 1] + a.pages[n]
    IN  at

\* Of an archive the engine is given, every table and page is in the file, and
\* every texture's marker was read from inside that texture's page.
ArchiveHeld ==
    verdict = "loadable" =>
        /\ TrueOffsets(archive)[Len(archive.pages)] <= archive.size
        /\ \A i \in Textures(archive) :
             LET x == archive.assets[i]
             IN  /\ MarkerByte(archive, x) >= TrueOffsets(archive)[x.page]
                 /\ MarkerByte(archive, x) < TrueOffsets(archive)[x.page + 1]
                 /\ x.marker = "ps4"
=============================================================================

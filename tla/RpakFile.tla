------------------------------ MODULE RpakFile ------------------------------
(***************************************************************************)
(* What the launcher reads of a mod's pak before the engine may load it    *)
(* (mod_rpaks.h): the names of the streamed paks behind the header, and    *)
(* the layout marker of every texture, found through the archive's own     *)
(* tables.  An archive is what its header and tables claim, whose sizes    *)
(* and counts have 16 or 32 bits: sums and products of them do not leave a *)
(* size_t, so they are plain numbers here.  The sizes of the tables' rows  *)
(* are constants.                                                          *)
(***************************************************************************)
EXTENDS Integers, Sequences, SequencesExt, FiniteSets

CONSTANTS
    HeaderSize, SlabRow, PageRow, PointerRow, AssetRow, DependentRow,
    MarkerAt,                        \* 0x1c: where a texture's header has its marker
    MaxTableBytes

ASSUME RpakFileAssumption ==
    /\ {HeaderSize, SlabRow, PageRow, PointerRow, AssetRow, DependentRow}
         \subseteq Nat \ {0}
    /\ {MarkerAt, MaxTableBytes} \subseteq Nat

OutOfFile == -1                      \* the result of a step that returned false

\* A plausible bug: the rows are compared with the whole file, not with what is
\* left of it.
AdvanceFromStart(size, cursor, count, stride) ==
    IF cursor = OutOfFile \/ cursor > size \/ count > size \div stride
    THEN OutOfFile
    ELSE cursor + count * stride

\* Moves the cursor over `count` rows of `stride` bytes, if the file has them.
RpakAdvance(size, cursor, count, stride) ==
    IF \/ cursor = OutOfFile
       \/ cursor > size
       \/ count > (size - cursor) \div stride
    THEN OutOfFile
    ELSE cursor + count * stride

\* Where the pages' data begins, behind the tables, or OutOfFile.
PageDataOffset(a) ==
    LET Over(at, count, stride) == RpakAdvance(a.size, at, count, stride)
        slabs    == Over(Over(HeaderSize, a.paths, 1), a.slabs, SlabRow)
        pointers == Over(Over(slabs, Len(a.pages), PageRow), a.pointers, PointerRow)
        uses     == Over(Over(pointers, Len(a.assets), AssetRow), a.uses, PointerRow)
        end      == Over(uses, a.dependents, DependentRow)
    IN  IF end > MaxTableBytes THEN OutOfFile ELSE end

\* Where page n (counted from 0) begins; the last one ends at Len(a.pages).
PageOffsets(a) ==
    LET at[n \in 0..Len(a.pages)] ==
            IF n = 0 THEN PageDataOffset(a) ELSE RpakAdvance(a.size, at[n - 1], a.pages[n], 1)
    IN  at

Textures(a) == {i \in DOMAIN a.assets : a.assets[i].type = "texture"}

\* A texture's header lies in its page, and the page in the file.
HeaderInside(a, x) ==
    /\ x.page < Len(a.pages)
    /\ x.head > MarkerAt
    /\ x.offset <= a.pages[x.page + 1]
    /\ x.head <= a.pages[x.page + 1] - x.offset
    /\ LET at == PageOffsets(a)[x.page] + x.offset
       IN  at <= a.size /\ x.head <= a.size - at

\* InspectRpakTexturePlatformsWith: whether the archive is one it understands.
\* Compressed archives, those with a code module, and patches are refused.
Inspects(a) ==
    /\ a.size >= HeaderSize
    /\ a.header = "rpak 7" /\ a.flags = 0 /\ a.patches = 0
    /\ PageDataOffset(a) # OutOfFile
    /\ PageOffsets(a)[Len(a.pages)] # OutOfFile
    /\ \A i \in Textures(a) : HeaderInside(a, a.assets[i])

\* The byte read for a texture.
MarkerByte(a, x) == PageOffsets(a)[x.page] + x.offset + MarkerAt

\* Loadable on PS4: something it knows in it, and no texture of another layout.
IsSupportedPs4TextureRpak(a) ==
    /\ \E i \in DOMAIN a.assets : a.assets[i].type \in {"texture", "material", "datatable"}
    /\ \A i \in Textures(a) : a.assets[i].marker = "ps4"

\* ParseRpakStarpakReferences: the names are read when the block is whole and
\* no name of it leaves the game's directory.
ReferencesRead(a) ==
    /\ a.size >= HeaderSize /\ a.header = "rpak 7"
    /\ a.paths <= a.size - HeaderSize
    /\ a.terminated
    /\ \A r \in ToSet(a.streams) : ~r.escapes

\* What discovery lets through to the engine.
Loadable(a) == ReferencesRead(a) /\ Inspects(a) /\ IsSupportedPs4TextureRpak(a)
=============================================================================

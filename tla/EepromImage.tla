------------------------------ MODULE EepromImage ------------------------------
(***************************************************************************)
(* Editing the bootloader EEPROM image in memory (EepromImage.c): the walk *)
(* over its sections, finding and replacing a file, and the timestamp.  An *)
(* image is a sequence of cells.  Sections start at even cells and hold a  *)
(* magic, a length and, if they are files, a name, an opaque cell and the  *)
(* content; the length counts what follows it.  Offsets start at 0.        *)
(***************************************************************************)
EXTENDS BlcfgValues

CONSTANTS Erase,        \* cells of the scratch sector at the end (EEPROM_ERASE_ALIGN)
          PartitionA,   \* where the partitions start, and where the second one ends, a
          PartitionB,   \* sector before the scratch sector
          PartitionEnd,
          MaxFile,      \* cells of the largest file (EEPROM_MAX_FILE_SIZE)
          MaxSections   \* EEPROM_MAX_SECTIONS

ASSUME EepromAssumption ==
  /\ {Erase, PartitionA, PartitionB, PartitionEnd} \subseteq {2 * n : n \in 0 .. PartitionEnd}
  /\ PartitionA < PartitionB /\ PartitionB < PartitionEnd
  /\ MaxFile \in Nat /\ MaxSections \in Nat \ {0}

\* A cell is a pair of what it is and its value.
Magics       == {<<"magic", m>> : m \in {"section", "file", "pad"}}
Erased       == <<"erased", 0>>
Name(n)      == <<"name", n>>
At(image, o) == image[o + 1]
Round(o)     == o + (o % 2)
EndB(image)  == Len(image) - Erase

\* The sections from start on; ok is FALSE at another magic, at a section that
\* leaves the image, and when there are more than are kept.
WalkSections(image, start) ==
  LET walk[o \in 0 .. Len(image) + 2] ==
        IF o + 2 > Len(image) \/ At(image, o) \in {Erased, <<"magic", "zero">>} THEN <<>>
        ELSE IF At(image, o) \notin Magics \/ At(image, o + 1)[2] > Len(image) - o - 2
               THEN <<[magic |-> "bad", offset |-> o, length |-> 0]>>
        ELSE <<[magic |-> At(image, o)[2], offset |-> o, length |-> At(image, o + 1)[2]]>>
               \o walk[Round(o + 2 + At(image, o + 1)[2])]
      list == walk[start]
  IN [ok |-> Len(list) <= MaxSections /\ \A i \in 1 .. Len(list) : list[i].magic # "bad", list |-> list]

NoFile == [found |-> FALSE]

\* The first file of that name in the window, and how far it may grow: over
\* the padding behind it, up to the next section, the window or the scratch
\* sector.
FirstFile(image, walk, from, to, name) ==
  LET s    == walk.list
      hits == {i \in 1 .. Len(s) : /\ s[i].magic = "file" /\ s[i].offset \in from .. to - 1
                                   /\ At(image, s[i].offset + 2) = Name(name)}
      i     == CHOOSE h \in hits : \A k \in hits : h <= k
      after == {k \in i + 1 .. Len(s) : s[k].magic # "pad"}
  IN IF ~walk.ok \/ hits = {} THEN NoFile
     ELSE [found |-> TRUE, hdr |-> s[i].offset, content |-> s[i].offset + 4,
           len  |-> IF s[i].length >= 2 THEN s[i].length - 2 ELSE 0,
           next |-> IF after # {} THEN s[CHOOSE k \in after : \A j \in after : k <= j].offset
                    ELSE IF to < EndB(image) THEN to ELSE EndB(image),
           last |-> i = Len(s)]
EepromFindFileIn(image, start, from, to, name) ==
  FirstFile(image, WalkSections(image, start), from, to, name)

\* What is left of the room is a pad section, unless the walk ends here.
PadHeader(loc, pad) == loc.next - pad >= 2 /\ ~loc.last

\* The image with the content of the file at loc replaced, or why it was not.
ReplaceAt(image, loc, data) ==
  LET end == loc.content + Len(data)
      pad == Round(end)
      cell(o) == IF o = loc.hdr + 1 THEN <<"len", Len(data) + 2>>
                 ELSE IF o \in loc.content .. end - 1 THEN data[o - loc.content + 1]
                 ELSE IF PadHeader(loc, pad) /\ o = pad THEN <<"magic", "pad">>
                 ELSE IF PadHeader(loc, pad) /\ o = pad + 1 THEN <<"len", loc.next - pad - 2>>
                 ELSE IF o \in end .. loc.next - 1 THEN Erased
                 ELSE At(image, o)
  IN IF Len(data) > MaxFile THEN [status |-> "BAD_BUFFER_SIZE", image |-> image]
     ELSE IF ~loc.found THEN [status |-> "NOT_FOUND", image |-> image]
     ELSE IF end > EndB(image) \/ end > loc.next THEN [status |-> "VOLUME_FULL", image |-> image]
     ELSE [status |-> "SUCCESS", image |-> [i \in 1 .. Len(image) |-> cell(i - 1)]]
EepromReplaceFileIn(image, start, from, to, name, data) ==
  ReplaceAt(image, EepromFindFileIn(image, start, from, to, name), data)

\* Both copies of the time: the read only one and partition A's.  An image
\* without the file has it in its last cells.
Stamp(image, o, time) ==
  SubSeq(image, 1, o) \o <<<<"inverse", time>>, <<"time", time>>>> \o SubSeq(image, o + 3, Len(image))
StampA(image, a, time) ==
  IF ~a.found \/ a.len < 2 THEN [status |-> "NOT_FOUND", image |-> image]
  ELSE [status |-> "SUCCESS", image |-> Stamp(image, a.content, time)]
StampBoth(image, ro, time) ==
  LET one == Stamp(image, ro.content, time)
  IN IF ~ro.found \/ ro.len < 2
       THEN [status |-> "SUCCESS", image |-> Stamp(image, Len(image) - 2, time)]
     ELSE StampA(one, EepromFindFileIn(one, 0, PartitionA, PartitionB, "updatetime"), time)
EepromSetTimestamp(image, time) ==
  StampBoth(image, EepromFindFileIn(image, 0, 0, PartitionA, "updatetime"), time)

-----------------------------------------------------------------------------
(* PatchImage (BootloaderConfigSetup.c): new settings in an image.         *)

Start(part) == IF part = "A" THEN 0 ELSE PartitionB
From(part)  == IF part = "A" THEN PartitionA ELSE PartitionB
To(part)    == IF part = "A" THEN PartitionB ELSE PartitionEnd
FileIn(image, part, name) == EepromFindFileIn(image, Start(part), From(part), To(part), name)
ReplaceIn(image, part, name, data) ==
  EepromReplaceFileIn(image, Start(part), From(part), To(part), name, data)

Content(image, loc) == SubSeq(image, loc.content + 1, loc.content + loc.len)
Text(cells)  == [i \in 1 .. Len(cells) |-> cells[i][2]]
Cells(text)  == [i \in 1 .. Len(text) |-> <<"line", text[i]>>]
Digest(text, time) == <<<<"sha256", text>>, <<"ts", time>>>>
BlTextHasLineKey(cells, key) == \E i \in 1 .. Len(cells) : cells[i][1] = key

\* A digest is rebuilt over the new text; a signature is not.
SyncConfigDigest(image, part, text, time) == ReplaceIn(image, part, "bootconf.sig", Digest(text, time))

\* Mutant: partition B keeps the digest of its old configuration.
PatchPartitionBStale(image, text, time) ==
  LET txt == ReplaceIn(image, "B", "bootconf.txt", Cells(text))
  IN IF ~FileIn(image, "B", "bootconf.txt").found THEN image ELSE txt.image

\* Partition B is kept in step as far as it goes.
SyncPartitionB(image, txt, text, time) ==
  IF txt.status # "SUCCESS" THEN image
  ELSE IF ~FileIn(txt.image, "B", "bootconf.sig").found THEN txt.image
  ELSE SyncConfigDigest(txt.image, "B", text, time).image
PatchPartitionB(image, text, time) ==
  IF ~FileIn(image, "B", "bootconf.txt").found THEN image
  ELSE SyncPartitionB(image, ReplaceIn(image, "B", "bootconf.txt", Cells(text)), text, time)

\* The new text, then its digest, then partition B and the timestamps: the
\* first that fails ends it.
PatchDigest(dig, text, time) ==
  IF dig.status # "SUCCESS" THEN dig
  ELSE EepromSetTimestamp(PatchPartitionB(dig.image, text, time), time)
PatchText(txt, signed, text, time) ==
  IF txt.status # "SUCCESS" THEN txt
  ELSE PatchDigest(IF signed THEN SyncConfigDigest(txt.image, "A", text, time) ELSE txt, text, time)
PatchFiles(image, sig, loc, new, time) ==
  IF At(image, 0) # <<"magic", "section">> THEN [status |-> "VOLUME_CORRUPTED", image |-> image]
  ELSE IF sig.found /\ BlTextHasLineKey(Content(image, sig), "rsa2048")
    THEN [status |-> "SECURITY_VIOLATION", image |-> image]
  ELSE IF ~loc.found THEN [status |-> "NOT_FOUND", image |-> image]
  ELSE IF new.status # "SUCCESS" THEN [status |-> new.status, image |-> image]
  ELSE PatchText(ReplaceIn(image, "A", "bootconf.txt", Cells(new.text)), sig.found, new.text, time)
PatchImage(image, values, time) ==
  LET loc == FileIn(image, "A", "bootconf.txt")
  IN PatchFiles(image, FileIn(image, "A", "bootconf.sig"), loc,
                BlBuildNewConfigText(Text(Content(image, loc)), values), time)

-----------------------------------------------------------------------------
(* Properties of the two edits.                                            *)

\* The sections of a partition, and of what is before it, that are not padding.
Real(image, part) ==
  SelectSeq(WalkSections(image, IF part = "A" THEN 0 ELSE PartitionB).list,
            LAMBDA s : s.magic # "pad" /\ (part = "A" => s.offset < PartitionB))
SectionCells(image, s) == SubSeq(image, s.offset + 1, s.offset + 2 + s.length)

\* A replaced file is found again with its new content; the bootloader's walk
\* meets the same sections at the same places, all others unchanged, and
\* nothing outside the room of the file was touched, least of all behind its
\* partition.  An edit that is refused changes nothing.  (The padding may be one
\* section more: this holds of images that are not at MaxSections.)
ReplacedExact(image, part, loc, r, new, data) ==
  LET rs == Real(image, part)
      ns == Real(r.image, part)
  IN IF r.status # "SUCCESS" THEN r.image = image
     ELSE /\ new.found /\ new.hdr = loc.hdr /\ Content(r.image, new) = data
          /\ Len(ns) = Len(rs)
          /\ \A i \in 1 .. Len(rs) :
               rs[i].offset # loc.hdr =>
                 ns[i] = rs[i] /\ SectionCells(r.image, ns[i]) = SectionCells(image, rs[i])
          /\ \A o \in 0 .. Len(image) - 1 :
               o < loc.hdr \/ o >= loc.next \/ o >= To(part) => At(r.image, o) = At(image, o)
ReplaceExact(image, part, name, data) ==
  LET r == ReplaceIn(image, part, name, data)
  IN ReplacedExact(image, part, FileIn(image, part, name), r, FileIn(r.image, part, name), data)

\* A patched image holds exactly the new settings in partition A, with a
\* digest of this very text if it has one, and in both places the time the
\* update is staged under; partition B has the same text, with its digest, or
\* is as it was.
PatchedExact(image, p, values, time) ==
  LET file(part, name) == Content(p.image, FileIn(p.image, part, name))
      text == Text(file("A", "bootconf.txt"))
      has(part, name)  == FileIn(p.image, part, name).found
  IN p.status = "SUCCESS" =>
       /\ BlValuesFromText(text) = values
       /\ has("A", "bootconf.sig") => file("A", "bootconf.sig") = Digest(text, time)
       /\ has("B", "bootconf.txt") =>
            \/ \A o \in PartitionB .. PartitionEnd - 1 : At(p.image, o) = At(image, o)
            \/ /\ file("B", "bootconf.txt") = file("A", "bootconf.txt")
               /\ has("B", "bootconf.sig") => file("B", "bootconf.sig") = Digest(text, time)
       /\ IF EepromFindFileIn(image, 0, 0, PartitionA, "updatetime").found
            THEN has("A", "updatetime") /\ file("A", "updatetime") = <<<<"inverse", time>>, <<"time", time>>>>
            ELSE At(p.image, Len(image) - 1) = <<"time", time>>
PatchExact(image, values, time) == PatchedExact(image, PatchImage(image, values, time), values, time)
=============================================================================

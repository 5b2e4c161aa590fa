------------------------------ MODULE MetaPage ------------------------------
(***************************************************************************)
(* class Meta (src/db/db.cpp 143-217): a meta page that is serialised,     *)
(* perhaps overwritten in part or damaged, deserialised and validated; and *)
(* the meta pages DB::init writes (17-34) as open_db reads them (112-135). *)
(***************************************************************************)
EXTENDS Crc64, FiniteSets

CONSTANTS Metas,        \* the field values that are written, without checksum
          Bursts,       \* the shapes damage may have, as sets of bit positions
          OsPageSizes,  \* what OS::getpagesize() may return
          Leftover      \* bytes of a new page's memory behind the meta

VARIABLES stored,     \* the metas handed to a write of this page
          page,       \* its bytes
          made,       \* "slice" if serialised, "init" if init wrote the page
          whole,      \* the last write got through and nothing was damaged
          got,        \* the meta that was read
          status,     \* what validate returned: "ok", "error", "corrupt"
          pageSize,   \* page_size_ of the database that read it
          pc          \* "write", "stored", "read" or "checked"

metaVars == <<stored, page, made, whole, got, status, pageSize, pc>>

kMagic == {0, 2, 3, 5, 6, 7, 9, 11, 12, 14, 15, 18, 19, 24, 26, 27, 29, 30, 31}
kVersion == {0}

\* The fields in the order of the class; root.root and root.sequence are two.
Fields == <<"magic", "version", "page_size", "flags", "root", "sequence", "freelist",
            "pgid", "txid", "checksum">>
SizeOf(f) == IF f \in {"magic", "version", "page_size", "flags"} THEN 4 ELSE 8
HeaderSize == 16

\* A byte has at least eight bits, what is written fits its field, and a burst is no
\* wider than the checksum.
ASSUME MetaPageAssumption ==
  /\ ByteBits >= 8
  /\ \A meta \in Metas :
       /\ DOMAIN meta = {Fields[i] : i \in 1 .. 9}
       /\ meta.magic = kMagic /\ meta.version = kVersion
       /\ \A f \in DOMAIN meta : meta[f] \in UnsignedT(SizeOf(f))
  /\ \A burst \in Bursts : burst \subseteq 0 .. CrcBits - 1 /\ burst # {}
  /\ OsPageSizes \subseteq UnsignedT(4)
  /\ Leftover \subseteq Seq(ByteValue)

IntegersOf(meta, fields) ==
  [i \in DOMAIN fields |-> [value |-> meta[fields[i]], size |-> SizeOf(fields[i])]]

\* write_aux: every field but the checksum
WriteAux(slice, meta) ==
  AppendVariadicUint("big", slice, IntegersOf(meta, Front(Fields)))

Sum64(meta) == crc64_be({}, WriteAux(<<>>, meta))
Serialize(meta) == AppendUint("big", WriteAux(<<>>, meta), meta.checksum, 8)

WithField(meta, f, value) ==
  [g \in DOMAIN meta \cup {f} |-> IF g = f THEN value ELSE meta[g]]

\* deserialize_aux for one field: read it and cut it off the slice.
DeserializeAux(order, acc, f) ==
  [rest |-> SubSeq(acc.rest, SizeOf(f) + 1, Len(acc.rest)),
   meta |-> WithField(acc.meta, f, Uint(order, acc.rest, SizeOf(f)))]

\* deserialize_aux for every field.
ReadFields(order, slice) ==
  LET acc[i \in 0 .. Len(Fields)] ==
        IF i = 0 THEN [rest |-> slice, meta |-> <<>>]
        ELSE DeserializeAux(order, acc[i - 1], Fields[i])
  IN  acc[Len(Fields)].meta

Deserialize(slice) == ReadFields("big", slice)

\* Page(pgid, kMeta, page_size): the header append_variadic_uint puts in front.
PageHeader(pgid) ==
  AppendVariadicUint("little", <<>>,
    << [value |-> pgid, size |-> 8], [value |-> {2}, size |-> 2],
       [value |-> {}, size |-> 2], [value |-> {}, size |-> 4] >>)

\* The Meta object in the memory behind the header, on a little endian machine.
Native(meta) == AppendVariadicUint("little", <<>>, IntegersOf(meta, Fields))
PageMeta(bytes) == ReadFields("little", SubSeq(bytes, HeaderSize + 1, Len(bytes)))

\* Faulty variant of Validate: the checksum is only looked at.
ValidateNoSum(meta) ==
  IF meta.magic # kMagic \/ meta.version # kVersion THEN "error" ELSE "ok"

Validate(meta) ==
  IF meta.magic # kMagic \/ meta.version # kVersion THEN "error"
  ELSE IF meta.checksum # Sum64(meta) THEN "corrupt" ELSE "ok"

WithSum(meta) == WithField(meta, "checksum", Sum64(meta))
-----------------------------------------------------------------------------
MetaInit ==
  /\ stored = {}
  /\ page = <<>>
  /\ made = "slice"
  /\ whole = TRUE
  /\ got = <<>>
  /\ status = "none"
  /\ pageSize = {}
  /\ pc = "write"

\* Meta::serialize of a meta whose checksum was set with sum64.
Write(meta) ==
  /\ pc = "write"
  /\ stored' = {WithSum(meta)}
  /\ page' = Serialize(WithSum(meta))
  /\ made' = "slice"
  /\ pc' = "stored"
  /\ UNCHANGED <<whole, got, status, pageSize>>

\* A second meta is written over the first; the write stops after k bytes.
Overwrite(meta, k) ==
  /\ pc = "stored"
  /\ made = "slice" /\ whole /\ Cardinality(stored) = 1
  /\ stored' = stored \cup {WithSum(meta)}
  /\ page' = SubSeq(Serialize(WithSum(meta)), 1, k) \o SubSeq(page, k + 1, Len(page))
  /\ whole' = (k = Len(page))
  /\ UNCHANGED <<made, got, status, pageSize, pc>>

\* Bits of the page flip, as far apart as a checksum has bits.
Damage(burst, at) ==
  /\ pc = "stored"
  /\ made = "slice" /\ whole /\ Cardinality(stored) = 1
  /\ \A b \in burst : at + b < ByteBits * Len(page)
  /\ page' = [i \in DOMAIN page |->
                Xor(page[i], {c \in 0 .. ByteBits - 1 :
                                ByteBits * i - 1 - c - at \in burst})]
  /\ whole' = FALSE
  /\ UNCHANGED <<stored, made, got, status, pageSize, pc>>

\* The fields DB::init sets in meta page i.
InitMeta(i, size) ==
  WithSum([magic |-> kMagic, version |-> kVersion, page_size |-> size, flags |-> {},
           root |-> {0, 1}, sequence |-> {}, freelist |-> {1}, pgid |-> i, txid |-> i])

\* Page i of a new file, i = 0 or 1, on a system with pages of the given size.
InitWrites(i, size, left) ==
  /\ pc = "write"
  /\ stored' = {InitMeta(i, size)}
  /\ page' = PageHeader(i) \o Native(InitMeta(i, size)) \o left
  /\ made' = "init"
  /\ pc' = "stored"
  /\ UNCHANGED <<whole, got, status, pageSize>>

\* Meta::deserialize of what was read from offset 0.
Read ==
  /\ pc = "stored"
  /\ got' = Deserialize(page)
  /\ pc' = "read"
  /\ UNCHANGED <<stored, page, made, whole, status, pageSize>>

\* open_db: a page that does not validate leaves the page size to the system.
Check(os) ==
  /\ pc = "read"
  /\ status' = Validate(got)
  /\ pageSize' = IF Validate(got) = "ok" THEN got.page_size ELSE os
  /\ pc' = "checked"
  /\ UNCHANGED <<stored, page, made, whole, got>>

MetaNext ==
  \/ \E meta \in Metas : Write(meta) \/ \E k \in 0 .. Len(page) : Overwrite(meta, k)
  \/ \E burst \in Bursts, at \in 0 .. ByteBits * Len(page) - 1 : Damage(burst, at)
  \/ \E i \in {{}, {0}}, size \in OsPageSizes, left \in Leftover : InitWrites(i, size, left)
  \/ Read
  \/ \E os \in OsPageSizes : Check(os)

MetaSpec == MetaInit /\ [][MetaNext]_metaVars
-----------------------------------------------------------------------------
\* What was serialised is read back field by field and validates, byte order and
\* sign bits included (meta_test.cpp 12-29); and the object DB::init fills behind
\* the header of a meta page validates, its checksum being set last (db.cpp 21-31).
MetaRoundTrip ==
  /\ pc = "checked" /\ made = "slice" /\ whole =>
       status = "ok" /\ got \in stored /\ page = Serialize(got)
  /\ pc = "stored" /\ made = "init" =>
       PageMeta(page) \in stored /\ Validate(PageMeta(page)) = "ok"

\* A meta that validate accepts (db.cpp 183-198) is one that was written: not a mix
\* of two metas from a write that stopped half way, and not one with bits flipped
\* within the width of the checksum, the checksum's own bytes included.
DamageRejected == pc = "checked" /\ status = "ok" => got \in stored

\* The loop over kCrc64Table (crc64.cpp 95-102) divides the message by the
\* polynomial crc64.hpp 14-23 names, for the bytes of every meta.
TableIsDivision ==
  pc = "stored" /\ made = "slice" /\ whole => crc64_be({}, page) = Remainder(page)

\* "Read the first meta page to determine the page size" (db.cpp 114-115): a
\* database is opened with the page size it was made with.
PageSizeFound ==
  pc = "checked" /\ made = "init" => \E meta \in stored : pageSize = meta.page_size
=============================================================================

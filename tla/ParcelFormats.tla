---------------------------- MODULE ParcelFormats ----------------------------
(***************************************************************************)
(* What the conversions of buffer_utils, buffer_handle, sync_fence and     *)
(* buffer_extra_data_impl put into a parcel and take out of it: sequences  *)
(* of the primitive fields, by type.  Values are left out; what decides    *)
(* how many fields there are is the shape of the data.                     *)
(***************************************************************************)
EXTENDS Naturals, Sequences

CONSTANTS
    ParcelLimit,    \* SURFACE_PARCEL_SIZE_LIMIT
    ExtraLimit,     \* SURFACE_MAX_USER_DATA_COUNT
    BatchLimit      \* SURFACE_MAX_QUEUE_SIZE

ASSUME LimitAssumption == {ParcelLimit, ExtraLimit, BatchLimit} \subseteq Nat

(* A shape: whether an optional part is there (a buffer, a handle, a        *)
(* listener), whether file descriptors are valid, the length of every list, *)
(* and the number of entries of extra data.                                 *)
ShapeOf(given, fd, n, extra) == [given |-> given, fd |-> fd, n |-> n, extra |-> extra]

Times(n, fields) ==
    [i \in 1..(n * Len(fields)) |-> fields[((i - 1) % Len(fields)) + 1]]

Optional(there, fields) == IF there THEN fields ELSE <<>>

(* The bytes a field takes in a parcel: fields of one width are read in     *)
(* each other's place without an error.  External: MessageParcel.           *)
Width(field) ==
    CASE field \in {"i32", "u32", "bool", "f32", "u8"} -> "4 bytes"
      [] field \in {"i64", "u64", "f64"}               -> "8 bytes"
      [] OTHER                                         -> field

OnWire(fields) == [i \in DOMAIN fields |-> Width(fields[i])]

-----------------------------------------------------------------------------
(* Configurations.                                                          *)
WriteRequestConfig == Times(4, <<"i32">>) \o <<"u64">> \o Times(3, <<"i32">>)

ReadRequestConfig ==
    <<"i32", "i32", "i32", "i32", "u64", "i32">> \o <<"i32">> \o <<"i32">>

WriteFlushConfig(sh) ==
    <<"u32">> \o Times(sh.n, Times(4, <<"i32">>)) \o <<"i64", "i64">>

ReadFlushConfig_OneTimestamp(sh) ==
    <<"u32">> \o Times(sh.n, <<"i32", "i32", "i32", "i32">>) \o <<"i64">>

ReadFlushConfig(sh) ==
    <<"u32">> \o Times(sh.n, <<"i32", "i32", "i32", "i32">>) \o <<"i64", "i64">>

WriteBufferRequestConfig ==
    Times(4, <<"i32">>) \o <<"u64", "i32", "u32", "u32", "i32", "i32">>

ReadBufferRequestConfig ==
    <<"i32", "i32", "i32", "i32", "u64", "i32", "u32", "u32", "i32">> \o <<"i32">>

(* File descriptors: a flag or the number itself tells whether one follows. *)
WriteFileDescriptor(sh) == <<"i32">> \o Optional(sh.fd, <<"fd">>)

ReadFileDescriptor(sh) == <<"i32">> \o Optional(sh.fd, <<"fd">>)

WriteFence(sh) == <<"i32">> \o Optional(sh.fd, <<"fd">>)

ReadFence(sh) == <<"i32">> \o Optional(sh.fd, <<"fd">>)

WriteBufferHandle(sh) ==
    <<"u32", "u32">> \o Times(5, <<"i32">>) \o <<"i64", "u64", "bool">>
        \o Optional(sh.fd, <<"fd">>) \o Times(sh.n, <<"fd">>) \o Times(sh.n, <<"i32">>)

ReadBufferHandle(sh) ==
    <<"u32", "u32">> \o <<"i32", "i32", "i32", "i32", "i32", "u64", "u64">> \o <<"bool">>
        \o Optional(sh.fd, <<"fd">>) \o Times(sh.n, <<"fd">>) \o Times(sh.n, <<"i32">>)

(* A buffer: its number, then its handle and the handle's original fields.  *)
WriteToMessageParcel(sh) == WriteBufferHandle(sh) \o <<"bool">> \o Times(4, <<"i32">>)

ReadFromMessageParcel(sh) ==
    ReadBufferHandle(sh) \o <<"bool", "i32", "i32", "i32", "i32">>

WriteSurfaceBufferImpl(sh) ==
    <<"u32", "bool">> \o Optional(sh.given, WriteToMessageParcel(sh))

ReadSurfaceBufferImpl(sh) ==
    <<"u32", "bool">> \o Optional(sh.given, ReadFromMessageParcel(sh))

(* A buffer with all its properties, for which a fence may be missing.      *)
WriteAllProperties(sh) ==
    <<"u32", "u64", "bool">> \o Optional(sh.given, WriteBufferHandle(sh))
        \o Times(3, <<"u32">>) \o Times(2, <<"i32">>) \o <<"bool">> \o Times(4, <<"i32">>)
        \o <<"bool">> \o Optional(sh.given, WriteFence(sh)) \o <<"u32">>

ReadAllProperties(sh) ==
    <<"u32", "u64", "bool">> \o Optional(sh.given, ReadBufferHandle(sh))
        \o <<"u32", "u32", "u32", "i32", "i32", "bool", "i32", "i32", "i32", "i32", "bool">>
        \o Optional(sh.given, ReadFence(sh)) \o <<"u32">>

WriteSurfaceBufferImplWithAllProperties(sh) ==
    <<"u32", "bool">> \o Optional(sh.given, WriteAllProperties(sh))

ReadSurfaceBufferImplWithAllProperties(sh) ==
    <<"u32", "bool">> \o Optional(sh.given, ReadAllProperties(sh))

(* Metadata, tunnel handles, allocation queries and surface properties.     *)
WriteHDRMetaData(sh) == <<"u32">> \o Times(sh.n, <<"u32", "f32">>)
ReadHDRMetaData(sh)  == <<"u32">> \o Times(sh.n, <<"u32", "f32">>)

WriteHDRMetaDataSet(sh) == <<"u32">> \o Times(sh.n, <<"u8">>)
ReadHDRMetaDataSet(sh)  == <<"u32">> \o Times(sh.n, <<"u8">>)

WriteExtDataHandle(sh) == <<"u32">> \o WriteFileDescriptor(sh) \o Times(sh.n, <<"i32">>)
ReadExtDataHandle(sh)  == <<"u32">> \o ReadFileDescriptor(sh) \o Times(sh.n, <<"i32">>)

WriteVerifyAllocInfo(sh) == <<"u32">> \o Times(sh.n, <<"u32", "u32", "u64", "i32">>)
ReadVerifyAllocInfo(sh)  == <<"u32">> \o Times(sh.n, <<"u32", "u32", "u64", "i32">>)

WriteSurfaceProperty == <<"u32">>
ReadSurfaceProperty  == <<"u32">>

(* Extra data: a key, the type of the value, and a field of that type.      *)
ExtraType(i) == <<"i32", "i64", "f64", "str">>[(i % 4) + 1]

ExtraItems(count) ==
    [i \in 1..(3 * count) |->
        CASE i % 3 = 1 -> "str"
          [] i % 3 = 2 -> "i32"
          [] OTHER     -> ExtraType(i \div 3)]

WriteExtraData(sh) == <<"i32", "i32">> \o ExtraItems(sh.extra)

ReadExtraDataItem(i) == <<"str", "i32", ExtraType(i)>>

ReadExtraData(sh) ==
    LET items[i \in 0..sh.extra] ==
            IF i = 0 THEN <<>> ELSE items[i - 1] \o ReadExtraDataItem(i)
    IN  <<"i32", "i32">> \o items[sh.extra]

-----------------------------------------------------------------------------
(* A field of a message, as its writer writes it and its reader reads it.   *)
Written(field, sh) ==
    CASE field = "config"    -> WriteRequestConfig
      [] field = "flush"     -> WriteFlushConfig(sh)
      [] field = "bufconfig" -> WriteBufferRequestConfig
      [] field = "fence"     -> WriteFence(sh)
      [] field = "fence?"    -> <<"bool">> \o Optional(sh.given, WriteFence(sh))
      [] field = "buffer"    -> WriteSurfaceBufferImpl(sh)
      [] field = "whole"     -> WriteSurfaceBufferImplWithAllProperties(sh)
      [] field = "bedata"    -> WriteExtraData(sh)
      [] field = "hdr"       -> WriteHDRMetaData(sh)
      [] field = "hdrset"    -> WriteHDRMetaDataSet(sh)
      [] field = "tunnel"    -> <<"bool">> \o Optional(sh.given, WriteExtDataHandle(sh))
      [] field = "verify"    -> WriteVerifyAllocInfo(sh)
      [] field = "property"  -> WriteSurfaceProperty
      [] field = "seqs"      -> <<"u32">> \o Times(sh.n, <<"u32">>)
      [] field = "matrix"    -> <<"u32">> \o Times(16, <<"f32">>)
      [] field = "u64?"      -> Optional(sh.given, <<"u64">>)
      [] OTHER               -> <<field>>

Read(field, sh) ==
    CASE field = "config"    -> ReadRequestConfig
      [] field = "flush"     -> ReadFlushConfig(sh)
      [] field = "bufconfig" -> ReadBufferRequestConfig
      [] field = "fence"     -> ReadFence(sh)
      [] field = "fence?"    -> <<"bool">> \o Optional(sh.given, ReadFence(sh))
      [] field = "buffer"    -> ReadSurfaceBufferImpl(sh)
      [] field = "whole"     -> ReadSurfaceBufferImplWithAllProperties(sh)
      [] field = "bedata"    -> ReadExtraData(sh)
      [] field = "hdr"       -> ReadHDRMetaData(sh)
      [] field = "hdrset"    -> ReadHDRMetaDataSet(sh)
      [] field = "tunnel"    -> <<"bool">> \o Optional(sh.given, ReadExtDataHandle(sh))
      [] field = "verify"    -> ReadVerifyAllocInfo(sh)
      [] field = "property"  -> ReadSurfaceProperty
      [] field = "seqs"      -> <<"u32">> \o Times(sh.n, <<"u32">>)
      [] field = "matrix"    -> <<"u32">> \o Times(16, <<"f32">>)
      [] field = "u64?"      -> Optional(sh.given, <<"u64">>)
      [] OTHER               -> <<field>>

(* The sizes a writer refuses to write, and a reader to read.               *)
WriterRefuses(field, sh) ==
    \/ (field \in {"flush", "hdr", "hdrset", "verify"} /\ sh.n > ParcelLimit)
    \/ (field = "tunnel" /\ sh.given /\ sh.n > ParcelLimit)

ReaderRefuses(field, sh) ==
    \/ field = "flush" /\ (sh.n = 0 \/ sh.n > ParcelLimit)
    \/ field \in {"hdr", "hdrset", "verify"} /\ sh.n > ParcelLimit
    \/ field = "tunnel" /\ sh.given /\ sh.n > ParcelLimit
    \/ field = "bedata" /\ sh.extra > ExtraLimit
=============================================================================

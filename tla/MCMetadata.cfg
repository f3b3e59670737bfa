CONSTANTS
    Thread = {t1}
    OtherKeys = {k1}
    Limit = 2
SPECIFICATION MetadataSpec
INVARIANTS MetadataTypeReadsBack

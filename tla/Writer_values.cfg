SPECIFICATION Spec
CONSTANTS
    agency1 = agency1
    info1 = info1
    info2 = info2
    c1 = c1
    c2 = c2
    None = None
    Tables = {"agency", "feed_info"}
    Objects = {agency1, info1, info2}
    TableOf <- MCTableOf
    Columns = {c1, c2}
    Defaults <- MCDefaults
    Values = {"x"}
    Contents <- MCContents
INVARIANT ValuesAreReadBack

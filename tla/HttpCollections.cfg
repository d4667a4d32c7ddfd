CONSTANTS
    accept = accept
    cookie = cookie
    gzip = gzip
    zip = zip
    Names <- TwoNames
    Values <- TwoValues
    Within <- ZipInGzip
    Classes <- BothClasses
    MaxObjects = 4
    MaxUpdates = 2
SPECIFICATION CollectionSpec
PROPERTIES FirstReadIsRight OnlyUpdatesInPlaceDisturb
CHECK_DEADLOCK FALSE

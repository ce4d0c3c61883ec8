SPECIFICATION FairSpec
CONSTANTS
    phone = phone
    laptop = laptop
    tablet = tablet
    qsv = qsv
    vaapi = vaapi
    Streams <- Both
    Hls <- PhoneOnly
    Encode <- Both
    Viewers = {v1, v2}
    Hardware <- OneEncoder
    Software = libx264
    Watchdog = watchdog
    Unloader = unloader
    NoStream = noStream
    NoEncoder = noEncoder
PROPERTY NoneIsLeftPulling
CHECK_DEADLOCK FALSE

SPECIFICATION Spec
CONSTANTS
  Base = 2
  MongoRest = 2
  MaxMessage = 6
  MaxStartup = 9
  MaxMongo = 7
  SSLCode <- MCSSLCode
  Streams <- MCStreams
INVARIANTS TypeOK Verbatim WellFramed AllReturned

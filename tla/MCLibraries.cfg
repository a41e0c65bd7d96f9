SPECIFICATION LibSpec
CONSTANTS
  Handlers = {h1, h2}
  Garbage = garbage
  FirstSize = 1
  MaxHandlers = 4
  Writes = {w1, w2, w3}
  MaxLength = 3
  MaxCount = 2
  MaxFailures = 2
  Sizes <- MCSizes
  Offers <- MCOffers
  MaxConfigures = 3
  MaxPings = 1
  Texts <- MCTexts
  Malformed <- MCMalformed
  CommandLines <- MCCommandLines
  PathInputs <- MCPathInputs
  NumberInputs <- MCNumberInputs
  Names <- MCNames
  Alias = "_zwolf"
  Longer <- MCLonger
  Root <- MCRoot
  Cwd <- MCCwd
  Width <- MCWidth
  Limit = 17
  Half = 64
  PrintInputs <- MCPrintInputs
  BufferSizes <- MCBufferSizes
  HalfOf <- MCHalfOf
  Arrays <- MCArrays
  Size = 256
  Relocations <- MCRelocations
  Hash <- MCHash
  Xload = "_xload"
  Exports = {"xload_open"}
  Sonames = {"a", "b", "c", "_xload"}
  NoSoname = "none"
  HalfSize = 3
  NameOrder <- MCNameOrder
  FileOrder <- MCFileOrder
  Templates <- MCTemplates
INVARIANTS
  HandlersRunOnce
  AnsweredOnce
  NoProtocolError
  ConversionsFit
  ArgumentsArrive
  PathMeaning
  NumbersExact
  PrintedRight
  SortedAndFound
  SymbolsBound
  TemplatesExpanded
PROPERTIES
  WritesAnswered
  ReaderComplete
  SizeFollowsConfigure
CHECK_DEADLOCK FALSE

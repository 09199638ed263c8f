\* A document of up to two characters of one byte or two; the cap grows by one page
\* of two past its three; pages hold two.
SPECIFICATION DemoSpec
CONSTANTS
  Slots      <- SmallSlots
  Offering   <- FirstEngine
  Hovering   <- FirstEngine
  Revising   <- SecondEngine
  ToneDigits <- NoEngine
  Produced   <- OneAccented
  Typed      <- OneDigit
  Pasted     <- DigitPasted
  Installed  <- TwoTables
  IntMax     = 100
  PageSize   = 2
  GrowPages  = 1
  DefaultCap = 2
  MaxCap     = 4
  MaxOffered = 3
  MaxScalars = 2
  BoundaryScalars <- EncodingBoundaries
  BoundaryBytes   <- ByteBoundaries
  MaxBytes   = 4
INVARIANTS
  TypedTextArrives
  PanelStaysLegal
PROPERTIES
  DeletesWhatWasAsked
  HoverIsOnPage

SPECIFICATION EngineSpec
CONSTANTS
  b1 = b1
  t1 = t1
  finger1 = finger1
  finger2 = finger2
  Boxes = {b1}
  Texts = {t1}
  Connectors = {}
  NoShape = NoShape
  Pointers = {finger1, finger2}
  Hovering = {}
  MaxPast = 1
  Px = 8
  LabelSize <- LabelSizeDef
  Sheets <- SheetsDef
  Points <- PointsDef
  Spans <- SpansDef
  Specs <- SpecsDef
  Charts <- ChartsDef
  Center <- CenterDef
  MaxSteps = 3
INVARIANTS RemoteKept Attached
PROPERTIES Timeline LabelsRide LaidOut DiagramKept
SYMMETRY Fingers

SPECIFICATION Spec
CONSTANTS
  Heights <- MCHeights
  Widths <- MCWidths
  Percents <- MCPercents
INVARIANTS
  TypeOK
  ColumnsTile
  RowsTile

  

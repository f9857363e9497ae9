CONSTANTS
  Sessions = 2
  HeaderKeys <- MCHeaderKeys
  Dumps = {d0, d1}
  Absent = Absent
  MaxLines = 4
SPECIFICATION Spec
INVARIANTS TypeOK FlushedSurvives LogsReadBack
PROPERTIES EarlierSessionsPreserved

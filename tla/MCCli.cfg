CONSTANTS
  Year1985 = Year1985
  Circa1985 = Circa1985
  Feb29of1900 = Feb29of1900
  Junk = Junk
  Blank = Blank
  Dash = Dash
  Torn = Torn
  Inputs <- MCInputs
  Edtf <- MCEdtf
  Julian <- MCJulian
  MaxInputs = 4
SPECIFICATION CallSpec
INVARIANTS ExitTellsAll OneByOne

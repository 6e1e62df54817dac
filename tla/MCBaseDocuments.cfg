CONSTANTS
  upload = upload
  later = later
  private = private
  report = report
  scan = scan
  rebuild = rebuild
  KEN = KEN
  UGA = UGA
  None = None
  Upload = {upload, later}
  Old = {report, private}
  Scan = {scan}
  Rebuild = {rebuild}
  Base = {upload, later, report}
  CountryOf <- MCCountryOf
  Given <- MCGiven
  Names <- MCNames
  Texts <- MCTexts
  LastYear = 2027
  SkipRefresh = FALSE
SPECIFICATION Spec
CHECK_DEADLOCK FALSE
INVARIANTS
  CacheFaithful
  YearsAreRight

SPECIFICATION Spec
CONSTANTS
  None = None
  Users = {"root", "ana"}
  NoText = NoText
  Texts = {"t1"}
  Categories = {"food", "rent", "pay"}
  Kind <- MCKind
  Editable = {"r1"}
  RowForm <- MCRowForm
  MaxReloads = 1
  Asked = Asked
  Rows = {"r1", "r2"}
  Special = {"r2"}
  MaxWrites = 2
  Error = Error
  ListRows = {1, 2}
  Some = {2}
  Fixed = {1}
  Group <- MCGroup
  PerPage = 1
  MaxMoves = 2
  MaxChanges = 2
  Plain = Plain
  ExternalIds = {"i1", "i2"}
  Accounts = {"a1", "a2"}
  Files = {"ofx", "csv"}
  Content <- MCContent
  IsCsv = {"csv"}
  MaxRendered = 2
  MaxSends = 3
  MaxVisits = 2
  Super = {"root"}
  Managers = {"ana"}
  Provisioned = {"ana"}
  TwoFactor = {"root"}
  Resettable = {"ana"}
  MaxCalls = 2
  MaxHops = 3
  Orgs = {"o1", "o2"}
  Currencies = {"BRL", "USD"}
  Memberships <- MCMemberships
  MaxInFlight = 1
INVARIANT ScreensTypeOK
INVARIANT SuggestionIsAnnounced
INVARIANT OwnWritesShow
 
INVARIANT ListOfTheFilters
INVARIANT AnswersOfThisVisit
INVARIANT ImportedOnce
INVARIANT RedirectsEnd
INVARIANT ForcedChangeHolds
INVARIANT CurrentOrgIsListed
INVARIANT DataIsOnesOwn
INVARIANT CurrencyOfTheOrg
CHECK_DEADLOCK FALSE

CONSTANTS
  cli = cli
  web = web
  login = login
  Clients <- TwoClients
  Logins <- OneLogin
  Accounts = {"home", "work"}
  NoAccount = NoAccount
  NoRecord = NoRecord
  MaxGrants = 3
SPECIFICATION TokenSpec
INVARIANT LoginKept
PROPERTY LoginStands

CONSTANTS
  Codes = {k1, k2, k3}
  Lobbies = {l1, l2, l3}
  Clients = {c1, c2}
  MaxLobbies = 2
  NoLobby = NoLobby
  NoCode = NoCode
SPECIFICATION ManagerSpec
PROPERTY OccupiedLobbiesStay

SPECIFICATION FairSpec
CONSTANTS
  Tabs = {t1}
  Tables = {"space", "sizes"}
  Controls = {"space"}
  Hosts = {"here"}
  Peers = {"there"}
  Answers <- MCAnswers
  Calls = {c1, c2}
  Storage = "off"
  Sent = Sent
  None = None
PROPERTY PageCatchesUp

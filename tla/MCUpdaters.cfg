SPECIFICATION UpdatersFairSpec
CONSTANTS
  Servers = {a}
  Handlers = {h1, h2}
  Fallback = {google}
  Feeds = {off, daily}
  Off = off
  MaxEdits = 2
  MaxFlips = 1
 
PROPERTIES  FeedFollows
